---- MODULE Spec2Model ----
(***************************************************************************)
(* Krishna AI query demonstration (src/krishna_ai_query_demo.py): the      *)
(* batched, paced, strictly sequential query client of                     *)
(* KrishnaQueryDemonstrator and its latency analytics.                     *)
(*                                                                         *)
(* Conventions.                                                            *)
(*  - A prompt is named by its place in KRISHNA_QUESTIONS ("Q01".."Q57").  *)
(*  - A text is a record [kind, of]: kind says which literal or which      *)
(*    producer made it, `of` the prompt or the error description embedded  *)
(*    in it.  WordCount and CharCount give len(text.split()) and len(text).*)
(*  - Latencies are milliseconds.  Python floats that are quotients are    *)
(*    kept exact as fractions [num, den].                                  *)
(*  - The remote responder is an opaque capability: for each call the      *)
(*    environment chooses whether it returns text, returns None (the error *)
(*    value of CloudflareWorker._send_request) or raises.                  *)
(*                                                                         *)
(* Specifications.                                                         *)
(*  - Spec: main of the Krishna demo, from the arguments to the summary.   *)
(*  - SpecAnalysis: analyze_latency_patterns and generate_summary applied  *)
(*    to what a sequence of queries recorded, including times of 0 and     *)
(*    lists of more than twenty times.                                     *)
(*  - SpecFloat: the mean and standard deviation of line 340 in IEEE 754   *)
(*    binary64, on n equal response times.                                 *)
(*  - SpecDataset: main of examples/lightrag_hf_cloudflare_dataset_demo.py.*)
(*  - SpecRuns: two successive run_queries_batch calls on one object.      *)
(*  - SpecTester: the test methods of DatasetMCPTester                     *)
(*    (src/dataset_mcp_test.py), called in any order, with file operations *)
(*    that may raise, and the three gathered tasks run in any order.       *)
(*  - SpecWorker: one CloudflareWorker._send_request call on each kind of  *)
(*    HTTP exchange.                                                       *)
(*  - SpecProcessing: process_dataset_entries on lists of rows.            *)
(***************************************************************************)
EXTENDS Integers, Sequences, FiniteSets, TLC

\* ---------------------------------------------------------------- bounds

\* Largest --questions value tried (the list is KRISHNA_QUESTIONS[:q]).
MaxQuestions == 3

\* Largest --batch-size value tried.
MaxBatch == 3

\* Largest elapsed time, in ms, a single query is observed to take.
MaxLatency == 2

\* Most queries recorded before the analysis is applied.
MaxLong == 22

\* Most direct calls of analyze_latency_patterns on one object.
MaxCalls == 2

\* Most texts process_dataset_entries yields.
MaxTexts == 2

\* Most equal response times whose deviation is computed in binary64.
MaxEqual == 3

\* Most prompts in each of two successive runs on one object.
MaxRun == 1

\* Most test-method calls made on one DatasetMCPTester.
MaxTestCalls == 2

\* Most rows in the split process_dataset_entries goes through.
MaxEntries == 2

\* --delay values tried (seconds): no pacing, and a positive delay.
Delays == {0, 1}

\* Elapsed times perf_counter can report around one query (always > 0).
Latencies == 1..MaxLatency

\* ------------------------------------------------------ program constants

KRISHNA_QUESTIONS ==
    <<"Q01", "Q02", "Q03", "Q04", "Q05", "Q06", "Q07", "Q08", "Q09", "Q10",
     "Q11", "Q12", "Q13", "Q14", "Q15", "Q16", "Q17", "Q18", "Q19", "Q20",
     "Q21", "Q22", "Q23", "Q24", "Q25", "Q26", "Q27", "Q28", "Q29", "Q30",
     "Q31", "Q32", "Q33", "Q34", "Q35", "Q36", "Q37", "Q38", "Q39", "Q40",
     "Q41", "Q42", "Q43", "Q44", "Q45", "Q46", "Q47", "Q48", "Q49", "Q50",
     "Q51", "Q52", "Q53", "Q54", "Q55", "Q56", "Q57">>

\* len(q.split()) for each question of KRISHNA_QUESTIONS.
QuestionWords ==
    <<26, 18, 19, 18, 15, 15, 15, 13, 16, 13, 15, 19, 15, 14, 11, 20, 17,
     17, 11, 13, 17, 16, 11, 14, 13, 11, 11, 11, 12, 9, 18, 12, 13, 17, 13,
     16, 12, 11, 14, 16, 15, 11, 15, 12, 12, 9, 12, 11, 13, 13, 16, 14, 10,
     13, 12, 11, 11>>

\* len(q) for each question of KRISHNA_QUESTIONS.
QuestionChars ==
    <<152, 126, 131, 100, 106, 85, 111, 92, 87, 73, 95, 104, 99, 86, 91,
     133, 103, 107, 83, 96, 100, 93, 90, 86, 88, 76, 67, 72, 94, 65, 112,
     81, 100, 98, 99, 87, 94, 75, 91, 91, 110, 72, 102, 82, 77, 63, 73, 77,
     87, 84, 102, 94, 76, 83, 82, 88, 88>>

\* len(r.split()) of the fallback class's _generate_mock_response(q).
MockClassWords ==
    <<45, 32, 32, 28, 28, 28, 28, 28, 28, 28, 28, 28, 28, 28, 28, 45, 28,
     28, 28, 28, 28, 28, 28, 45, 28, 28, 28, 28, 28, 28, 30, 28, 28, 28, 32,
     28, 28, 28, 28, 28, 26, 32, 28, 28, 28, 28, 28, 28, 28, 29, 29, 28, 28,
     28, 28, 28, 28>>

\* len(r) of the fallback class's _generate_mock_response(q).
MockClassChars ==
    <<321, 233, 233, 197, 197, 197, 197, 197, 197, 197, 197, 197, 197, 197,
     197, 321, 197, 197, 197, 197, 197, 197, 197, 321, 197, 197, 197, 197,
     197, 197, 212, 197, 197, 197, 233, 197, 197, 197, 197, 197, 201, 230,
     197, 197, 197, 197, 197, 197, 197, 217, 217, 197, 197, 197, 197, 197,
     197>>

QuestionPos(q) == CHOOSE p \in 1..Len(KRISHNA_QUESTIONS) : KRISHNA_QUESTIONS[p] = q

\* ------------------------------------------------------------------ texts

\* Python's None, as a value a responder may return.
NoneValue == [kind |-> "None", of |-> "-"]

\* What a responder that answers returns for a prompt: the deterministic
\* stub answer "ok:" + prompt, which has the prompt's words and three more
\* characters.
RemoteText(q) == [kind |-> "remote", of |-> q]

\* The fallback CloudflareWorker class's keyword-matched answer.
MockClassText(q) == [kind |-> "mock_class", of |-> q]

\* The fixed placeholder used when self.cloudflare_worker is None.
PlaceholderText == [kind |-> "placeholder", of |-> "-"]

\* f"Connection Error: {str(conn_error)}"
ConnectionErrorText(e) == [kind |-> "connection_error", of |-> e]

\* f"Error: {str(e)}"
ErrorText(e) == [kind |-> "error", of |-> e]

\* str() of the exception a raising responder raises.
RaisedDescription == "transport failure"

\* str() of the AttributeError raised by None.split().
NoneSplitDescription == "'NoneType' object has no attribute 'split'"

DescriptionWords(e) == IF e = NoneSplitDescription THEN 6 ELSE 2
DescriptionChars(e) == IF e = NoneSplitDescription THEN 42 ELSE 17

\* len(text.split())
WordCount(t) ==
    CASE t.kind = "remote"           -> QuestionWords[QuestionPos(t.of)]
      [] t.kind = "mock_class"       -> MockClassWords[QuestionPos(t.of)]
      [] t.kind = "placeholder"      -> 22
      [] t.kind = "connection_error" -> 2 + DescriptionWords(t.of)
      [] t.kind = "error"            -> 1 + DescriptionWords(t.of)

\* len(text)
CharCount(t) ==
    CASE t.kind = "remote"           -> 3 + QuestionChars[QuestionPos(t.of)]
      [] t.kind = "mock_class"       -> MockClassChars[QuestionPos(t.of)]
      [] t.kind = "placeholder"      -> 132
      [] t.kind = "connection_error" -> 18 + DescriptionChars(t.of)
      [] t.kind = "error"            -> 7 + DescriptionChars(t.of)

\* ------------------------------------------------------------- fractions

Frac(n, d) == [num |-> n, den |-> d]

Zero == Frac(0, 1)

\* ------------------------------------------------------------ log messages

\* No message (an event that is not a log line).
NoMessage == [kind |-> "none", value |-> Zero]

\* A progress message that shows the percentage with one decimal.
PercentMessage(progress) == [kind |-> "percent", value |-> progress]

\* Line 320, logger.info(".1f"): the text logged is the literal ".1f",
\* whatever the value of `progress`.
ProgressMessage(progress) == [kind |-> "literal .1f", value |-> Zero]

\* ------------------------------------------------------------------ state

VARIABLES
    args,               \* argparse namespace: questions, delay, batch_size, demo
    pc,                 \* where main / run_queries_batch stands
    demonstrator,       \* the KrishnaQueryDemonstrator object's fields
    questions,          \* questions_to_process, the list handed to the run
    formatted_results,  \* run_queries_batch: the list it returns
    next_start,         \* the next value range(0, total, batch_size) yields
    batch_start,        \* run_queries_batch: current chunk's first offset
    batch_end,          \* run_queries_batch: current chunk's end offset
    batch_questions,    \* run_queries_batch: the current chunk
    chunks,             \* the chunks the outer loop has taken, in order
    pos,                \* inner loop: 0-based place in the current chunk
    i,                  \* inner loop: ordinal of the current item
    in_flight,          \* ordinals whose responder call has not resolved
    outcomes,           \* per item, how its responder call ended
    events,             \* calls, pacing sleeps and progress notes, in order
    summary,            \* what generate_summary reported
    analysis,           \* analyze_latency_patterns: calls made, last value
    hf,                 \* the dataset demo: its main's locals, files and log
    std_calc,           \* line 340 in binary64 on n equal times, step by step
    runs,               \* the earlier run_queries_batch calls on the object
    tester,             \* dataset_mcp_test.py: the DatasetMCPTester, its files
    request,            \* one CloudflareWorker._send_request call
    processing          \* one process_dataset_entries call

vars == <<args, pc, demonstrator, questions, formatted_results, next_start,
          batch_start, batch_end, batch_questions, chunks, pos, i, in_flight,
          outcomes, events, summary, analysis, hf, std_calc,
          runs, tester, request, processing>>

loopVars ==
    <<next_start, batch_start, batch_end, batch_questions, chunks, pos, i>>

Min(a, b) == IF a < b THEN a ELSE b

\* Python's seq[:n] for a sequence and an int n.
SliceTo(seq, n) ==
    IF n >= 0 THEN SubSeq(seq, 1, Min(n, Len(seq)))
    ELSE SubSeq(seq, 1, IF Len(seq) + n > 0 THEN Len(seq) + n ELSE 0)

\* A slice that takes one element too many.
Slice_oneTooMany(seq, a, b) == SubSeq(seq, a + 1, Min(b + 1, Len(seq)))

\* Python's seq[a:b] for 0 <= a.
Slice(seq, a, b) == SubSeq(seq, a + 1, Min(b, Len(seq)))

\* A range that stops before a chunk that would not be full.
RangeYields_fullChunksOnly(v, stop, step) ==
    IF step > 0 THEN v + step <= stop ELSE v > stop

\* Whether range(start, stop, step) yields v, the next value of its walk.
RangeYields(v, stop, step) == IF step > 0 THEN v < stop ELSE v > stop

\* KrishnaQueryDemonstrator.__init__ (start_time, a wall-clock reading, is
\* read only to print the elapsed seconds and is left out).
NewDemonstrator ==
    [results                |-> <<>>,
     response_times         |-> <<>>,
     cloudflare_worker      |-> "None",
     connectivity_issues    |-> 0,
     successful_queries     |-> 0,
     total_tokens_estimated |-> 0]

ArgsSpace ==
    [questions  : 0..MaxQuestions,
     delay      : Delays,
     batch_size : -1..MaxBatch,
     demo       : BOOLEAN]

NoSummary == [kind |-> "not generated"]

\* The dataset demo (examples/lightrag_hf_cloudflare_dataset_demo.py) before
\* main is entered, with the given credentials in the environment and the
\* given files in the working directory.
HfStart(key, account, present) ==
    [cloudflare_api_key |-> key,
     account_id         |-> account,
     working_dir_files  |-> present,
     deleted            |-> {},
     rag                |-> "unbound",
     finalize_calls     |-> 0,
     embedding          |-> "not requested",
     dataset            |-> "not loaded",
     texts_to_insert    |-> 0,
     inserted           |-> FALSE,
     attempted          |-> <<>>,
     failed_queries     |-> {},
     raised             |-> <<>>,
     logged_errors      |-> <<>>,
     propagated         |-> "nothing"]

\* The dataset demo not being run.
HfIdle == HfStart("set", "set", {})

\* No computation of the standard deviation in binary64 under way.
StdCalcIdle == [n |-> 0, k |-> 0]

\* dataset_mcp_test.py lines 9-11 and 303: a DatasetMCPTester as constructed,
\* with the files of its workspace directory and the locals of the test
\* method that is running.
NoFile == [missing |-> TRUE]
NewTester ==
    [pc           |-> "idle",
     test_results |-> <<>>,
     returns      |-> <<>>,
     calls        |-> 0,
     files        |-> {},
     task_file    |-> NoFile,
     tasks        |-> <<>>,
     i            |-> 0,
     written      |-> <<>>,
     task_state   |-> <<>>,
     task_value   |-> <<>>,
     finished     |-> <<>>,
     results      |-> <<>>,
     summary      |-> [called |-> FALSE],
     summarized   |-> -1]

\* No _send_request call is being made.
NoRequest == [pc |-> "none"]

\* No process_dataset_entries call is being made.
NoProcessing == [pc |-> "none"]

\* No call of analyze_latency_patterns made yet.
NoAnalysis == [calls |-> 0, value |-> [k \in {} |-> [num |-> 0, den |-> 1]]]

Init ==
    /\ args \in ArgsSpace
    /\ pc = "main"
    /\ demonstrator = NewDemonstrator
    /\ questions = <<>>
    /\ formatted_results = <<>>
    /\ next_start = 0
    /\ batch_start = 0
    /\ batch_end = 0
    /\ batch_questions = <<>>
    /\ chunks = <<>>
    /\ pos = 0
    /\ i = 0
    /\ in_flight = {}
    /\ outcomes = <<>>
    /\ events = <<>>
    /\ summary = NoSummary
    /\ analysis = NoAnalysis
    /\ hf = HfIdle
    /\ std_calc = StdCalcIdle
    /\ runs = <<>>
    /\ tester = NewTester
    /\ request = NoRequest
    /\ processing = NoProcessing

\* ------------------------------------------------ initialize_cloudflare_worker

\* How the import of CloudflareWorker ends: the class is imported, the import
\* raises ImportError (the fallback class is defined), or anything else in
\* the try block raises another exception.
ImportOutcomes == {"imported", "import_error", "error"}

InitializeCloudflareWorker(d, imp) ==
    CASE imp = "imported"     -> [d  |-> [d EXCEPT !.cloudflare_worker = "real"],
                                  ok |-> TRUE]
      [] imp = "import_error" -> [d  |-> [d EXCEPT !.cloudflare_worker = "mock_class"],
                                  ok |-> TRUE]
      [] imp = "error"        -> [d |-> d, ok |-> FALSE]

\* main, from the construction of the demonstrator to the call of
\* run_queries_batch: the --demo override, the slice of the question list and
\* the unconditional initialisation of the worker.
MainSetup(d, a, imp) ==
    LET forced == IF a.demo THEN [d EXCEPT !.cloudflare_worker = "None"] ELSE d
    IN  InitializeCloudflareWorker(forced, imp).d

Setup ==
    /\ pc = "main"
    /\ \E imp \in ImportOutcomes :
          demonstrator' = MainSetup(demonstrator, args, imp)
    /\ questions' = SliceTo(KRISHNA_QUESTIONS, args.questions)
    /\ pc' = "run"
    /\ UNCHANGED <<tester, request, processing, runs, std_calc, hf, args, formatted_results, loopVars, in_flight, outcomes,
                   events, summary, analysis>>

\* --------------------------------------------------------- query_krishna_topic

\* The outcomes a responder of the given kind can produce for one call.
ResponderOutcomes(worker) ==
    IF worker = "mock_class" THEN {"text"} ELSE {"text", "none", "raise"}

ResponderText(worker, q) ==
    IF worker = "mock_class" THEN MockClassText(q) ELSE RemoteText(q)

\* Lines 210-220: the response and the tallies after the responder call (or
\* after the placeholder branch when there is no worker).
CallResponder(d, question, outcome) ==
    IF d.cloudflare_worker # "None"
    THEN CASE outcome = "text" ->
                [response |-> ResponderText(d.cloudflare_worker, question),
                 d |-> [d EXCEPT !.successful_queries = @ + 1]]
           [] outcome = "none" ->
                [response |-> NoneValue,
                 d |-> [d EXCEPT !.successful_queries = @ + 1]]
           [] outcome = "raise" ->
                [response |-> ConnectionErrorText(RaisedDescription),
                 d |-> [d EXCEPT !.connectivity_issues = @ + 1]]
    ELSE [response |-> PlaceholderText, d |-> d]

\* query_krishna_topic without its outer handler: the AttributeError of
\* None.split() leaves the method.
QueryKrishnaTopic_noOuterHandler(d, question, outcome, elapsed) ==
    LET r     == CallResponder(d, question, outcome)
        timed == [r.d EXCEPT !.response_times = Append(@, elapsed)]
    IN  IF r.response = NoneValue
        THEN [d |-> timed,
              raised        |-> TRUE,
              answer        |-> NoneValue,
              response_time |-> 0]
        ELSE [d |-> [timed EXCEPT !.total_tokens_estimated =
                         @ + QuestionWords[QuestionPos(question)]
                           + WordCount(r.response)],
              raised        |-> FALSE,
              answer        |-> r.response,
              response_time |-> elapsed]

\* Lines 222-239: the elapsed time is appended to response_times; then the
\* token estimate splits the response, which raises for None and lands in the
\* outer handler.  `raised` says whether an exception leaves the method: both
\* handlers catch Exception, so none does.
QueryKrishnaTopic(d, question, outcome, elapsed) ==
    LET r     == CallResponder(d, question, outcome)
        timed == [r.d EXCEPT !.response_times = Append(@, elapsed)]
    IN  IF r.response = NoneValue
        THEN [d |-> [timed EXCEPT !.connectivity_issues = @ + 1],
              raised        |-> FALSE,
              answer        |-> ErrorText(NoneSplitDescription),
              response_time |-> 0]
        ELSE [d |-> [timed EXCEPT !.total_tokens_estimated =
                         @ + QuestionWords[QuestionPos(question)]
                           + WordCount(r.response)],
              raised        |-> FALSE,
              answer        |-> r.response,
              response_time |-> elapsed]

\* format_result: the number, the prompt, the time with two decimals (kept
\* in hundredths of a millisecond) and the answer.
FormatResult(question_number, question, response_time, answer) ==
    [question_number      |-> question_number,
     question             |-> question,
     response_time_x100   |-> response_time * 100,
     answer               |-> answer]

\* ----------------------------------------------------------- run_queries_batch

\* run_queries_batch starting with a cleared object.
RunStartEffect_resets(d) ==
    [NewDemonstrator EXCEPT !.cloudflare_worker = d.cloudflare_worker]

\* Lines 286-289: what entering run_queries_batch does to the object.  Only
\* the local formatted_results is created; results, response_times and the
\* tallies are assigned in __init__ alone.
RunStartEffect(d) == d

\* Lines 286-291: the call of run_queries_batch; range() rejects a zero step.
StartRun ==
    /\ pc = "run"
    /\ demonstrator' = RunStartEffect(demonstrator)
    /\ formatted_results' = <<>>
    /\ next_start' = 0
    /\ chunks' = <<>>
    /\ pc' = IF args.batch_size = 0 THEN "exit_1" ELSE "batch"
    /\ UNCHANGED <<tester, request, processing, runs, std_calc, hf, args, questions, batch_start, batch_end,
                   batch_questions, pos, i, in_flight, outcomes, events,
                   summary, analysis>>

\* enumerate(batch_questions, 1): ordinals that restart in every chunk.
FirstOrdinal_restart(start) == 1

\* enumerate(batch_questions, batch_start + 1): the ordinal of a chunk's
\* first item.
FirstOrdinal(start) == start + 1

\* Lines 291-298: the outer loop takes the next chunk, or the run returns.
NextBatch ==
    /\ pc = "batch"
    /\ IF RangeYields(next_start, Len(questions), args.batch_size)
       THEN /\ batch_start' = next_start
            /\ next_start' = next_start + args.batch_size
            /\ batch_end' = Min(next_start + args.batch_size, Len(questions))
            /\ batch_questions' =
                  Slice(questions, next_start, next_start + args.batch_size)
            /\ chunks' =
                  Append(chunks, Slice(questions, next_start,
                                       next_start + args.batch_size))
            /\ pos' = 0
            /\ i' = FirstOrdinal(next_start)
            /\ pc' = "item"
       ELSE /\ pc' = "returned"
            /\ UNCHANGED loopVars
    /\ UNCHANGED <<tester, request, processing, runs, std_calc, hf, args, demonstrator, questions, formatted_results,
                   in_flight, outcomes, events, summary, analysis>>

\* The prompt of the item the inner loop stands at.
CurrentQuestion == batch_questions[pos + 1]

\* The event of a call, a recorded result or a pacing sleep of item k.
ItemEvent(ty, k) ==
    [type |-> ty, item |-> k, percent |-> Zero, message |-> NoMessage]

\* Lines 318-320: `percent` is the local `progress`, (batch_end / total) * 100,
\* and `message` what logger.info is given.
ProgressEvent(done, total) ==
    [type    |-> "progress",
     item    |-> done,
     percent |-> Frac(done * 100, total),
     message |-> ProgressMessage(Frac(done * 100, total))]

\* Lines 318-320 and the inner loop's step: the next item of the chunk, or
\* the progress note that closes the chunk.
AfterItem(evs) ==
    IF pos + 1 < Len(batch_questions)
    THEN /\ pos' = pos + 1
         /\ i' = i + 1
         /\ pc' = "item"
         /\ events' = evs
    ELSE /\ UNCHANGED <<pos, i>>
         /\ pc' = "batch"
         /\ events' = Append(evs, ProgressEvent(batch_end, Len(questions)))

\* A pacing test against the end of the chunk instead of the end of the list.
Paces_withinChunk(delay, k, n) == delay > 0 /\ k < batch_end

\* A pacing test that forgets the last item.
Paces_everyItem(delay, k, n) == delay > 0

\* Whether lines 315-316 sleep after item k of n.
Paces(delay, k, n) == delay > 0 /\ k < n

\* Lines 303-308: the entry appended to self.results for item k, from what
\* query_krishna_topic returned.
StoredResult(k, question, q) ==
    [question_number |-> k,
     question        |-> question,
     response_time   |-> q.response_time,
     answer_length   |-> CharCount(q.answer)]

\* Lines 302-316: the item's result is stored and formatted, then the pacing
\* delay starts unless this was the last item overall.
RecordItem(q, outcome) ==
    /\ outcomes' = Append(outcomes, outcome)
    /\ IF q.raised
       THEN \* run_queries_batch has no handler: the exception reaches main's.
            /\ demonstrator' = q.d
            /\ pc' = "exit_1"
            /\ UNCHANGED <<formatted_results, events, pos, i>>
       ELSE /\ demonstrator' =
                  [q.d EXCEPT !.results =
                      Append(@, StoredResult(i, CurrentQuestion, q))]
            /\ formatted_results' =
                  Append(formatted_results,
                         FormatResult(i, CurrentQuestion, q.response_time,
                                      q.answer))
            /\ LET recorded == Append(events, ItemEvent("result", i))
               IN  IF Paces(args.delay, i, Len(questions))
                   THEN /\ pc' = "sleeping"
                        /\ events' = Append(recorded, ItemEvent("sleep", i))
                        /\ UNCHANGED <<pos, i>>
                   ELSE AfterItem(recorded)

\* A call that is started but not awaited stays pending.
Resolved_notAwaited(pending, k) == pending

\* The calls still pending once the awaited call of item k has resolved.
Resolved(pending, k) == pending \ {k}

\* Lines 198-212 with a worker: the call is issued and awaited.
IssueQuery ==
    /\ pc = "item"
    /\ demonstrator.cloudflare_worker # "None"
    /\ pc' = "awaiting"
    /\ in_flight' = in_flight \cup {i}
    /\ events' = Append(events, ItemEvent("call", i))
    /\ UNCHANGED <<tester, request, processing, runs, std_calc, hf, args, demonstrator, questions, formatted_results, loopVars,
                   outcomes, summary, analysis>>

\* Lines 212-239 and 302-320: the awaited call resolves, the item is recorded.
QueryResolves ==
    /\ pc = "awaiting"
    /\ \E outcome \in ResponderOutcomes(demonstrator.cloudflare_worker),
          elapsed \in Latencies :
          RecordItem(QueryKrishnaTopic(demonstrator, CurrentQuestion,
                                       outcome, elapsed), outcome)
    /\ in_flight' = Resolved(in_flight, i)
    /\ UNCHANGED <<tester, request, processing, runs, std_calc, hf, args, questions, next_start, batch_start, batch_end,
                   batch_questions, chunks, summary, analysis>>

\* Lines 198-239 and 302-320 without a worker: the placeholder branch has no
\* suspension point, so the item is queried and recorded in one step.
AnswerLocally ==
    /\ pc = "item"
    /\ demonstrator.cloudflare_worker = "None"
    /\ \E elapsed \in Latencies :
          RecordItem(QueryKrishnaTopic(demonstrator, CurrentQuestion,
                                       "bypass", elapsed), "bypass")
    /\ UNCHANGED <<tester, request, processing, runs, std_calc, hf, args, questions, next_start, batch_start, batch_end,
                   batch_questions, chunks, in_flight, summary, analysis>>

\* Line 316: the pacing sleep ends.
WakeUp ==
    /\ pc = "sleeping"
    /\ AfterItem(events)
    /\ UNCHANGED <<tester, request, processing, runs, std_calc, hf, args, demonstrator, questions, formatted_results,
                   next_start, batch_start, batch_end, batch_questions,
                   chunks, in_flight, outcomes, summary, analysis>>

\* ------------------------------------------------------ analyze_latency_patterns

RECURSIVE SumSeq(_)
SumSeq(s) == IF s = <<>> THEN 0 ELSE Head(s) + SumSeq(Tail(s))

RECURSIVE SumSquares(_)
SumSquares(s) == IF s = <<>> THEN 0 ELSE Head(s) * Head(s) + SumSquares(Tail(s))

RECURSIVE Insert(_, _)
Insert(x, s) ==
    IF s = <<>> THEN <<x>>
    ELSE IF x <= Head(s) THEN <<x>> \o s
    ELSE <<Head(s)>> \o Insert(x, Tail(s))

\* sorted(times)
RECURSIVE Sorted(_)
Sorted(s) == IF s = <<>> THEN <<>> ELSE Insert(Head(s), Sorted(Tail(s)))

MinOf(s) == CHOOSE x \in {s[k] : k \in DOMAIN s} : \A k \in DOMAIN s : x <= s[k]
MaxOf(s) == CHOOSE x \in {s[k] : k \in DOMAIN s} : \A k \in DOMAIN s : x >= s[k]

\* The filter letting the times that are 0 through.
Positive_keepsZero(s) == SelectSeq(s, LAMBDA t : t >= 0)

\* [t for t in seq if t > 0]
Positive(s) == SelectSeq(s, LAMBDA t : t > 0)

\* Python's seq[k] for a 0-based index k.
At(s, k) == s[k + 1]

\* The lower median in place of the upper one.
MedianIndex_lower(n) == (n - 1) \div 2

\* An index computed as the ceiling of n * 0.99.
P99Index_ceiling(n) == (n * 99 + 99) \div 100

\* The 0-based indices of line 337-339: len // 2, int(len * 0.95) and
\* int(len * 0.99).
MedianIndex(n) == n \div 2
P95Index(n) == (n * 95) \div 100
P99Index(n) == (n * 99) \div 100

\* A square root kept exact: the number whose square is f.
SqrtOf(f) == [sqrt_of |-> f]

\* The population variance sum((t - mean)^2) / n, as one fraction.
Variance(times) ==
    LET n == Len(times)
        s == SumSeq(times)
    IN  Frac(n * SumSquares(times) - s * s, n * n)

\* 1 - (max - min) / sum * len, on the times kept by the filter.
ConsistencyScore(times) ==
    Frac(SumSeq(times) - (MaxOf(times) - MinOf(times)) * Len(times),
         SumSeq(times))

\* The empty dict.
EmptyMapping == [k \in {} |-> Zero]

\* The times of response_times that enter the statistics (line 330).
AnalysedTimes(d) == Positive(d.response_times)

\* Lines 334-343: the statistics of a non-empty list of times.
Statistics(times) ==
    LET n == Len(times)
    IN  [min_latency       |-> Frac(MinOf(times), 1),
         max_latency       |-> Frac(MaxOf(times), 1),
         median_latency    |-> Frac(At(Sorted(times), MedianIndex(n)), 1),
         p95_latency       |-> Frac(At(Sorted(times), P95Index(n)), 1),
         p99_latency       |-> Frac(At(Sorted(times), P99Index(n)), 1),
         std_deviation     |-> SqrtOf(Variance(times)),
         consistency_score |-> ConsistencyScore(times)]

\* analyze_latency_patterns answering an empty filtered list with statistics
\* that are all zero, in place of the empty dict.
AnalyzeLatencyPatterns_zeroStatistics(d) ==
    IF AnalysedTimes(d) = <<>>
    THEN [k \in {"min_latency", "max_latency", "median_latency",
                 "p95_latency", "p99_latency", "std_deviation",
                 "consistency_score"} |-> Zero]
    ELSE Statistics(AnalysedTimes(d))

\* The value analyze_latency_patterns returns: lines 327-328 and 331-332
\* return {} for no times and for no time above 0.
AnalyzeLatencyPatterns(d) ==
    IF d.response_times = <<>> THEN EmptyMapping
    ELSE LET times == AnalysedTimes(d)
         IN  IF times = <<>> THEN EmptyMapping ELSE Statistics(times)

\* analyze_latency_patterns sorting and filtering self.response_times in
\* place.
AnalyzeEffect_sortsInPlace(d) ==
    [d EXCEPT !.response_times = Sorted(Positive(@))]

\* The object after a call of analyze_latency_patterns: the method builds the
\* list `times` and sorted() copies of it, and assigns nothing to self.
AnalyzeEffect(d) == d

\* dict.get(key, default)
Get(m, key, default) == IF key \in DOMAIN m THEN m[key] ELSE default

\* ------------------------------------------------------------ generate_summary

\* [r['response_time'] for r in self.results if r['response_time'] > 0]
ValidTimes(d) ==
    Positive([k \in DOMAIN d.results |-> d.results[k].response_time])

AnswerLengths(d) == [k \in DOMAIN d.results |-> d.results[k].answer_length]

\* Line 348: what generate_summary returns when there are no results.
NoResultsSummary == [kind |-> "No results to summarize."]

\* Lines 350-429: the figures of the report (the elapsed wall-clock seconds
\* and the rate derived from them are not part of the model).
SummaryReport(d) ==
    LET valid_times      == ValidTimes(d)
        total_questions  == Len(d.results)
        latency_analysis == AnalyzeLatencyPatterns(d)
    IN  [kind                   |-> "report",
         total_questions        |-> total_questions,
         successful_queries     |-> d.successful_queries,
         connectivity_issues    |-> d.connectivity_issues,
         success_rate           |-> Frac(d.successful_queries * 100,
                                         total_questions),
         avg_response_time      |-> IF valid_times # <<>>
                                    THEN Frac(SumSeq(valid_times),
                                              Len(valid_times))
                                    ELSE Zero,
         avg_answer_length      |-> Frac(SumSeq(AnswerLengths(d)),
                                         total_questions),
         total_tokens_estimated |-> d.total_tokens_estimated,
         min_latency       |-> Get(latency_analysis, "min_latency", Zero),
         max_latency       |-> Get(latency_analysis, "max_latency", Zero),
         median_latency    |-> Get(latency_analysis, "median_latency", Zero),
         p95_latency       |-> Get(latency_analysis, "p95_latency", Zero),
         p99_latency       |-> Get(latency_analysis, "p99_latency", Zero),
         std_deviation     |-> Get(latency_analysis, "std_deviation", Zero),
         consistency_score |-> Get(latency_analysis, "consistency_score", Zero),
         demo_mode         |-> d.cloudflare_worker = "None"]

\* A report with every figure at zero.
ZeroFilledSummary(d) ==
    [kind                   |-> "report",
     total_questions        |-> 0,
     successful_queries     |-> 0,
     connectivity_issues    |-> 0,
     success_rate           |-> Zero,
     avg_response_time      |-> Zero,
     avg_answer_length      |-> Zero,
     total_tokens_estimated |-> 0,
     min_latency            |-> Zero,
     max_latency            |-> Zero,
     median_latency         |-> Zero,
     p95_latency            |-> Zero,
     p99_latency            |-> Zero,
     std_deviation          |-> Zero,
     consistency_score      |-> Zero,
     demo_mode              |-> d.cloudflare_worker = "None"]

\* generate_summary with a zero-filled report in place of the fixed text.
GenerateSummary_zeroFilled(d) ==
    IF d.results = <<>> THEN ZeroFilledSummary(d) ELSE SummaryReport(d)

GenerateSummary(d) ==
    IF d.results = <<>> THEN NoResultsSummary ELSE SummaryReport(d)

\* The record of the calls of analyze_latency_patterns after one more call.
Analysed(a, d) ==
    [calls |-> a.calls + 1, value |-> AnalyzeLatencyPatterns(d)]

\* generate_summary calls analyze_latency_patterns (line 357) unless it has
\* returned at line 348.
AnalysisAfterSummary(a, d) == IF d.results = <<>> THEN a ELSE Analysed(a, d)

\* main, lines 477-503: the run has returned; the summary is generated.
Summarize ==
    /\ pc = "returned"
    /\ summary' = GenerateSummary(demonstrator)
    /\ analysis' = AnalysisAfterSummary(analysis, demonstrator)
    /\ pc' = "completed"
    /\ UNCHANGED <<tester, request, processing, runs, std_calc, hf, args, demonstrator, questions, formatted_results, loopVars,
                   in_flight, outcomes, events>>

Next ==
    \/ Setup
    \/ StartRun
    \/ NextBatch
    \/ IssueQuery
    \/ QueryResolves
    \/ AnswerLocally
    \/ WakeUp
    \/ Summarize

Spec == Init /\ [][Next]_vars

\* ----------------------------------- two run_queries_batch calls on one object

\* A caller that, like main, builds the demonstrator and runs a first list,
\* and then calls run_queries_batch a second time on the same object with
\* another list before it asks for the summary.  No pacing delay is used, so
\* no run sleeps.
InitRuns ==
    /\ Init
    /\ args.questions <= MaxRun
    /\ args.batch_size \in 1..MaxRun
    /\ args.delay = 0
    /\ ~args.demo

\* The second call: the first run is kept for reference, the new list is
\* KRISHNA_QUESTIONS[:n].
CallAgain ==
    /\ pc = "returned"
    /\ runs = <<>>
    /\ runs' = <<[questions         |-> questions,
                  formatted_results |-> formatted_results,
                  outcomes          |-> outcomes,
                  after             |-> demonstrator]>>
    /\ \E n \in 0..MaxRun : questions' = SliceTo(KRISHNA_QUESTIONS, n)
    /\ pc' = "run"
    /\ UNCHANGED <<tester, request, processing, std_calc, hf, args, demonstrator, formatted_results,
                   loopVars, in_flight, outcomes, events, summary, analysis>>

\* generate_summary after the second run.
SummarizeRuns ==
    /\ runs # <<>>
    /\ Summarize

NextRuns ==
    \/ Setup
    \/ StartRun
    \/ NextBatch
    \/ IssueQuery
    \/ QueryResolves
    \/ AnswerLocally
    \/ CallAgain
    \/ SummarizeRuns

SpecRuns == InitRuns /\ [][NextRuns]_vars

\* ------------------------------------------- the analysis on recorded times

\* The analysis applied to what queries have recorded: the worker is queried
\* item after item, always returning text, and analyze_latency_patterns and
\* generate_summary are then called on the object.  The first MaxQuestions
\* elapsed times are free (0 is the time.time() difference of lines 207 and
\* 222 on a clock that did not advance); the later ones follow a fixed
\* scattering rule, so that lists of up to MaxLong times are covered.
ElapsedChoices(times) ==
    IF Len(times) < MaxQuestions THEN 0..MaxLatency
    ELSE {(5 * times[Len(times)] + Len(times) + 1) % (MaxLong + 1)}

InitAnalysis ==
    /\ args = [questions |-> 0, delay |-> 0, batch_size |-> 1, demo |-> FALSE]
    /\ pc = "loaded"
    /\ demonstrator = InitializeCloudflareWorker(NewDemonstrator, "imported").d
    /\ questions = <<>>
    /\ formatted_results = <<>>
    /\ next_start = 0
    /\ batch_start = 0
    /\ batch_end = 0
    /\ batch_questions = <<>>
    /\ chunks = <<>>
    /\ pos = 0
    /\ i = 0
    /\ in_flight = {}
    /\ outcomes = <<>>
    /\ events = <<>>
    /\ summary = NoSummary
    /\ analysis = NoAnalysis
    /\ hf = HfIdle
    /\ std_calc = StdCalcIdle
    /\ runs = <<>>
    /\ tester = NewTester
    /\ request = NoRequest
    /\ processing = NoProcessing

\* One more item queried and stored (lines 299-308), before any analysis.
RecordQuery ==
    /\ pc = "loaded"
    /\ analysis = NoAnalysis
    /\ summary = NoSummary
    /\ Len(demonstrator.results) < MaxLong
    /\ \E elapsed \in ElapsedChoices(demonstrator.response_times) :
          LET k        == Len(demonstrator.results) + 1
              question == KRISHNA_QUESTIONS[k]
              q        == QueryKrishnaTopic(demonstrator, question, "text",
                                            elapsed)
          IN  /\ demonstrator' =
                    [q.d EXCEPT !.results = Append(@, StoredResult(k, question, q))]
              /\ questions' = Append(questions, question)
    /\ outcomes' = Append(outcomes, "text")
    /\ UNCHANGED <<tester, request, processing, runs, std_calc, hf, args, pc, formatted_results, loopVars, in_flight, events,
                   summary, analysis>>

\* A call of analyze_latency_patterns.
Analyze ==
    /\ pc = "loaded"
    /\ analysis.calls < MaxCalls
    /\ analysis' = Analysed(analysis, demonstrator)
    /\ demonstrator' = AnalyzeEffect(demonstrator)
    /\ UNCHANGED <<tester, request, processing, runs, std_calc, hf, args, pc, questions, formatted_results, loopVars,
                   in_flight, outcomes, events, summary>>

\* A call of generate_summary, which calls analyze_latency_patterns itself.
SummarizeRecorded ==
    /\ pc = "loaded"
    /\ summary = NoSummary
    /\ summary' = GenerateSummary(demonstrator)
    /\ analysis' = AnalysisAfterSummary(analysis, demonstrator)
    /\ UNCHANGED <<tester, request, processing, runs, std_calc, hf, args, pc, demonstrator, questions, formatted_results,
                   loopVars, in_flight, outcomes, events>>

NextAnalysis ==
    \/ RecordQuery
    \/ Analyze
    \/ SummarizeRecorded

SpecAnalysis == InitAnalysis /\ [][NextAnalysis]_vars

\* ------------------- examples/lightrag_hf_cloudflare_dataset_demo.py: main

\* Lines 21-22: the values os.getenv gives when the variable is not set.
KeyPlaceholder == "YOUR_API_KEY"
AccountPlaceholder == "YOUR_ACCOUNT_ID"

\* Lines 291-299.
files_to_delete ==
    {"graph_chunk_entity_relation.graphml", "kv_store_doc_status.json",
     "kv_store_full_docs.json", "kv_store_text_chunks.json",
     "vdb_chunks.json", "vdb_entities.json", "vdb_relationships.json"}

\* Lines 336-340.
test_queries == <<"main content", "key themes", "important entities">>

\* The files found in the working directory: none, one old data file, one
\* with a file main does not touch, or all the old data files.
OldFileSets ==
    {{}, {"vdb_chunks.json"}, {"vdb_chunks.json", "notes.txt"},
     files_to_delete}

InitDataset ==
    /\ \E key \in {KeyPlaceholder, "set"},
          account \in {AccountPlaceholder, "set"},
          present \in OldFileSets :
          hf = HfStart(key, account, present)
    /\ pc = "hf_main"
    /\ args = [questions |-> 0, delay |-> 0, batch_size |-> 1, demo |-> FALSE]
    /\ demonstrator = NewDemonstrator
    /\ questions = <<>>
    /\ formatted_results = <<>>
    /\ next_start = 0
    /\ batch_start = 0
    /\ batch_end = 0
    /\ batch_questions = <<>>
    /\ chunks = <<>>
    /\ pos = 0
    /\ i = 0
    /\ in_flight = {}
    /\ outcomes = <<>>
    /\ events = <<>>
    /\ summary = NoSummary
    /\ analysis = NoAnalysis
    /\ std_calc = StdCalcIdle
    /\ runs = <<>>
    /\ tester = NewTester
    /\ request = NoRequest
    /\ processing = NoProcessing

\* An exception raised inside main's try block: control goes to line 378.
Raise(h, exception) ==
    [h EXCEPT !.raised = Append(@, exception)]

mainVars == <<tester, request, processing, runs, std_calc, args, demonstrator, questions, formatted_results, loopVars,
              in_flight, outcomes, events, summary, analysis>>

\* A validation that tests the API key only.
ConfigurationError_keyOnly(key, account) ==
    IF key = KeyPlaceholder
    THEN "ValueError: Please set CLOUDFLARE_API_KEY environment variable"
    ELSE "nothing"

\* Lines 285-288: what the two tests of the credentials raise.
ConfigurationError(key, account) ==
    IF key = KeyPlaceholder
    THEN "ValueError: Please set CLOUDFLARE_API_KEY environment variable"
    ELSE IF account = AccountPlaceholder
    THEN "ValueError: Please set CLOUDFLARE_ACCOUNT_ID environment variable"
    ELSE "nothing"

ValidateConfiguration ==
    /\ pc = "hf_main"
    /\ LET error == ConfigurationError(hf.cloudflare_api_key, hf.account_id)
       IN  IF error # "nothing"
           THEN /\ hf' = Raise(hf, error)
                /\ pc' = "hf_except"
           ELSE /\ pc' = "hf_clear"
                /\ UNCHANGED hf
    /\ UNCHANGED mainVars

\* Lines 301-305: every listed file that exists is removed.
ClearOldData ==
    /\ pc = "hf_clear"
    /\ hf' = [hf EXCEPT !.working_dir_files = @ \ files_to_delete,
                        !.deleted = hf.working_dir_files \cap files_to_delete]
    /\ pc' = "hf_initialize"
    /\ UNCHANGED mainVars

\* Line 309, rag = await initialize_rag(): the name is bound only if the call
\* returns; an exception of LightRAG's constructor or of the storages leaves
\* it unbound.
InitializeRag ==
    /\ pc = "hf_initialize"
    /\ \/ /\ hf' = [hf EXCEPT !.rag = "bound"]
          /\ pc' = "hf_embedding"
       \/ /\ hf' = Raise(hf, "error in initialize_rag")
          /\ pc' = "hf_except"
    /\ UNCHANGED mainVars

\* Lines 312-314: the test embedding.  The worker's embedding_chunk returns
\* None after any request error, and None has no attribute shape.
TestEmbedding ==
    /\ pc = "hf_embedding"
    /\ \/ /\ hf' = [hf EXCEPT !.embedding = "array"]
          /\ pc' = "hf_load"
       \/ /\ hf' = Raise([hf EXCEPT !.embedding = "None"],
                         "AttributeError: 'NoneType' object has no attribute 'shape'")
          /\ pc' = "hf_except"
       \/ /\ hf' = Raise(hf, "error in embedding_func")
          /\ pc' = "hf_except"
    /\ UNCHANGED mainVars

\* Lines 323-324: load_hf_dataset_with_auth logs and re-raises what
\* load_dataset raises; process_dataset_entries yields the texts.
LoadDataset ==
    /\ pc = "hf_load"
    /\ \/ \E n \in 0..MaxTexts :
             /\ hf' = [hf EXCEPT !.dataset = "loaded", !.texts_to_insert = n]
             /\ pc' = "hf_insert"
       \/ /\ hf' = Raise([hf EXCEPT !.logged_errors =
                                        Append(@, "Failed to load dataset")],
                         "error in load_dataset")
          /\ pc' = "hf_except"
    /\ UNCHANGED mainVars

\* Lines 327-333: the insertion, or the early return when there is no text.
InsertDataset ==
    /\ pc = "hf_insert"
    /\ IF hf.texts_to_insert > 0
       THEN \/ /\ hf' = [hf EXCEPT !.inserted = TRUE]
               /\ pc' = "hf_query"
            \/ /\ hf' = Raise(hf, "error in ainsert")
               /\ pc' = "hf_except"
       ELSE /\ pc' = "hf_finally"
            /\ UNCHANGED hf
    /\ UNCHANGED mainVars

\* Lines 342-357: one test query; its exception is logged at line 357 and
\* the loop goes on.
AfterQuery(k) == IF k = Len(test_queries) THEN "hf_finally" ELSE "hf_query"

\* A loop without the handler of lines 356-357.
QueryRaises_uncontained(h, k) ==
    [hf |-> Raise([h EXCEPT !.attempted = Append(@, k),
                            !.failed_queries = @ \cup {k}],
                  "error in aquery"),
     pc |-> "hf_except"]

\* Lines 346-357, query k raising: the error is logged, the loop goes on.
QueryRaises(h, k) ==
    [hf |-> [h EXCEPT !.attempted = Append(@, k),
                      !.failed_queries = @ \cup {k},
                      !.logged_errors = Append(@, "Error during query")],
     pc |-> AfterQuery(k)]

TestQuery ==
    /\ pc = "hf_query"
    /\ LET k == Len(hf.attempted) + 1
       IN  /\ k <= Len(test_queries)
           /\ \/ /\ hf' = [hf EXCEPT !.attempted = Append(@, k)]
                 /\ pc' = AfterQuery(k)
              \/ /\ hf' = QueryRaises(hf, k).hf
                 /\ pc' = QueryRaises(hf, k).pc
    /\ UNCHANGED mainVars

\* Lines 378-380: the exception is logged and raised again.
HandleException ==
    /\ pc = "hf_except"
    /\ hf' = [hf EXCEPT !.logged_errors = Append(@, "An error occurred"),
                        !.propagated = hf.raised[Len(hf.raised)]]
    /\ pc' = "hf_finally"
    /\ UNCHANGED mainVars

\* A finally clause that finalizes without the test.
FinalizeIfBound_always(h) == [h EXCEPT !.finalize_calls = @ + 1]

\* Lines 382-383.
FinalizeIfBound(h) ==
    IF h.rag = "bound" THEN [h EXCEPT !.finalize_calls = @ + 1] ELSE h

\* Lines 381-383: the storages are finalized if the name rag is bound; main
\* then returns or lets the exception through.
Finally ==
    /\ pc = "hf_finally"
    /\ hf' = FinalizeIfBound(hf)
    /\ pc' = IF hf.propagated = "nothing" THEN "hf_returned" ELSE "hf_raised"
    /\ UNCHANGED mainVars

NextDataset ==
    \/ ValidateConfiguration
    \/ ClearOldData
    \/ InitializeRag
    \/ TestEmbedding
    \/ LoadDataset
    \/ InsertDataset
    \/ TestQuery
    \/ HandleException
    \/ Finally

SpecDataset == InitDataset /\ [][NextDataset]_vars

\* ------------------------- line 340 in binary64, on n equal response times

\* The exact fractions above leave out the rounding of Python's floats.  This
\* part computes sum(times) / len(times) of line 340 as CPython does, in
\* IEEE 754 binary64 with round-half-to-even, for times = [x] * n.
\*
\* A positive double is [hi, lo, e]: the value (hi * 2^27 + lo) * 2^e with a
\* 53-bit significand, 2^25 <= hi < 2^26 and 0 <= lo < 2^27; 0.0 is FZero.
\* Two 27-bit halves keep every intermediate below 2^31.
Two25 == 2^25
Two26 == 2^26
Two27 == 2^27

FZero == [hi |-> 0, lo |-> 0, e |-> 0]

\* The halves of hi * 2^27 + lo after the carry out of lo.
Carried(hi, lo) == [hi |-> hi + lo \div Two27, lo |-> lo % Two27]

\* The double nearest to (hi * 2^27 + lo + f) * 2^e, where hi >= 2^25 and
\* 0 <= f < 1 with f > 0 exactly when `sticky`; ties go to the even
\* significand.  When sticky, at least one bit is dropped.
RoundToDouble(hi, lo, e, sticky) ==
    LET s    == CHOOSE c \in 0..3 :
                   /\ hi < Two26 * 2^c
                   /\ c = 0 \/ hi >= Two26 * 2^(c - 1)
        p    == 2^s
        qhi  == hi \div p
        t    == (hi % p) * Two27 + lo
        qlo  == t \div p
        r    == t % p
        half == p \div 2
        up   == /\ s > 0
                /\ \/ r > half
                   \/ r = half /\ (sticky \/ qlo % 2 = 1)
        q    == IF up THEN Carried(qhi, qlo + 1) ELSE [hi |-> qhi, lo |-> qlo]
    IN  IF q.hi = Two26
        THEN [hi |-> Two25, lo |-> 0, e |-> e + s + 1]
        ELSE [hi |-> q.hi, lo |-> q.lo, e |-> e + s]

\* a + b in binary64, for a = 0.0 or a >= b > 0 with a < 8 * b.
FAdd(a, b) ==
    IF a = FZero THEN b
    ELSE LET d == 2^(a.e - b.e)
             w == Carried(a.hi * d + b.hi, a.lo * d + b.lo)
         IN  RoundToDouble(w.hi, w.lo, b.e, FALSE)

\* a / n in binary64, for a > 0 and an int n in 1..4: the quotient of the
\* significand scaled by 2^k >= 2n, and its remainder as the sticky bit.
FDiv(a, n) ==
    LET k   == CHOOSE c \in 1..3 : 2^c >= 2 * n /\ 2^(c - 1) < 2 * n
        w   == Carried(a.hi * 2^k, a.lo * 2^k)
        t   == (w.hi % n) * Two27 + w.lo
    IN  RoundToDouble(w.hi \div n, t \div n, a.e - k, t % n # 0)

\* Response times as doubles: 0.1, 0.2, 0.3, 0.7, 0.05, 1.1, 2.3 (decimal
\* fractions, rounded by float()), and 0.25, 0.5, 1.5 (exact in binary).
EqualTimes ==
    {[hi |-> 53687091, lo |-> 26843546,  e |-> -56],
     [hi |-> 53687091, lo |-> 26843546,  e |-> -55],
     [hi |-> 40265318, lo |-> 53687091,  e |-> -54],
     [hi |-> 46976204, lo |-> 107374182, e |-> -53],
     [hi |-> 53687091, lo |-> 26843546,  e |-> -57],
     [hi |-> 36909875, lo |-> 26843546,  e |-> -52],
     [hi |-> 38587596, lo |-> 107374182, e |-> -51],
     [hi |-> Two25,    lo |-> 0,         e |-> -54],
     [hi |-> Two25,    lo |-> 0,         e |-> -53],
     [hi |-> Two25 + Two25 \div 2, lo |-> 0, e |-> -52]}

InitFloat ==
    /\ \E x \in EqualTimes, n \in 1..MaxEqual :
          std_calc = [x |-> x, n |-> n, k |-> 0, total |-> FZero,
                      mean |-> FZero, std_deviation |-> "not computed"]
    /\ pc = "fp_sum"
    /\ hf = HfIdle
    /\ runs = <<>>
    /\ tester = NewTester
    /\ request = NoRequest
    /\ processing = NoProcessing
    /\ args = [questions |-> 0, delay |-> 0, batch_size |-> 1, demo |-> FALSE]
    /\ demonstrator = NewDemonstrator
    /\ questions = <<>>
    /\ formatted_results = <<>>
    /\ next_start = 0
    /\ batch_start = 0
    /\ batch_end = 0
    /\ batch_questions = <<>>
    /\ chunks = <<>>
    /\ pos = 0
    /\ i = 0
    /\ in_flight = {}
    /\ outcomes = <<>>
    /\ events = <<>>
    /\ summary = NoSummary
    /\ analysis = NoAnalysis

otherVars == <<tester, request, processing, runs, hf, args, demonstrator, questions, formatted_results, loopVars,
               in_flight, outcomes, events, summary, analysis>>

\* sum(times): the built-in adds the items from left to right, starting at 0.
AddTime ==
    /\ pc = "fp_sum"
    /\ std_calc.k < std_calc.n
    /\ std_calc' = [std_calc EXCEPT !.k = @ + 1,
                                    !.total = FAdd(@, std_calc.x)]
    /\ UNCHANGED pc
    /\ UNCHANGED otherVars

\* sum(times) / len(times)
DivideByLen ==
    /\ pc = "fp_sum"
    /\ std_calc.k = std_calc.n
    /\ std_calc' = [std_calc EXCEPT !.mean = FDiv(std_calc.total, std_calc.n)]
    /\ pc' = "fp_mean"
    /\ UNCHANGED otherVars

\* (sum((t - mean)**2 for t in times) / len(times))**0.5 with every t equal
\* to x: 0.0 if the mean is x; otherwise t - mean is a non-zero double of
\* magnitude at least 2^e, its square, the sum of n such squares, the
\* quotient and the root are positive doubles (nothing underflows at these
\* magnitudes).
Deviation ==
    /\ pc = "fp_mean"
    /\ std_calc' = [std_calc EXCEPT !.std_deviation =
                       IF std_calc.mean = std_calc.x THEN "0.0" ELSE "positive"]
    /\ pc' = "fp_done"
    /\ UNCHANGED otherVars

NextFloat ==
    \/ AddTime
    \/ DivideByLen
    \/ Deviation

SpecFloat == InitFloat /\ [][NextFloat]_vars

\* --------------------------------------- dataset_mcp_test.py: DatasetMCPTester

\* The variables of the other programs, at rest.
OthersIdle ==
    /\ args = [questions |-> 0, delay |-> 0, batch_size |-> 1, demo |-> FALSE]
    /\ demonstrator = NewDemonstrator
    /\ questions = <<>>
    /\ formatted_results = <<>>
    /\ next_start = 0
    /\ batch_start = 0
    /\ batch_end = 0
    /\ batch_questions = <<>>
    /\ chunks = <<>>
    /\ pos = 0
    /\ i = 0
    /\ in_flight = {}
    /\ outcomes = <<>>
    /\ events = <<>>
    /\ summary = NoSummary
    /\ analysis = NoAnalysis
    /\ std_calc = StdCalcIdle
    /\ runs = <<>>

testerOthers ==
    <<request, processing, runs, std_calc, hf, pc, args, demonstrator,
      questions, formatted_results, loopVars, in_flight, outcomes, events,
      summary, analysis>>

\* How open(path, 'w') followed by json.dump / f.write ends: the file is
\* written, open raises (the file is as before), or the write raises after
\* open has truncated the file.
WriteOutcomes == {"ok", "open_fails", "write_fails"}

\* How open(path, 'r') followed by json.load / f.read ends.
ReadOutcomes == {"ok", "read_fails"}

\* str(e) of what a file operation raises.
OSError == "OSError"
AssertionError == "AssertionError"
KeyError == "KeyError"

\* A file name that is a literal of the program.
Named(name) == [prefix |-> name, index |-> -1, suffix |-> ""]

\* What open(path, 'w') leaves when the write after it raises.
Truncated == [truncated |-> TRUE]

\* Lines 36-40, 71-75, 131-135, 192-196, 269-273: the passed entry is
\* appended and the method returns True.
RecordPassed(t, test, details) ==
    [t EXCEPT !.test_results = Append(@, [test    |-> test,
                                          status  |-> "passed",
                                          details |-> details]),
              !.returns = Append(@, TRUE),
              !.pc = "idle"]

\* A handler that lets the method return True.
RecordFailed_returnsTrue(t, test, e) ==
    [t EXCEPT !.test_results = Append(@, [test    |-> test,
                                          status  |-> "failed",
                                          details |-> e]),
              !.returns = Append(@, TRUE),
              !.pc = "idle"]

\* Lines 43-49, 78-84, 138-144, 199-205, 276-282: except Exception appends
\* the failed entry and the method returns False.
RecordFailed(t, test, e) ==
    [t EXCEPT !.test_results = Append(@, [test    |-> test,
                                          status  |-> "failed",
                                          details |-> e]),
              !.returns = Append(@, FALSE),
              !.pc = "idle"]

\* A caller invokes a test method: its locals are fresh.
Called(t) ==
    [t EXCEPT !.calls = @ + 1,
              !.tasks = <<>>, !.i = 0, !.written = <<>>,
              !.task_state = <<>>, !.task_value = <<>>, !.finished = <<>>,
              !.results = <<>>]

\* Lines 13-49.
BasicDatasetTest ==
    /\ tester.pc = "idle"
    /\ tester.calls < MaxTestCalls
    /\ \E w \in WriteOutcomes, r \in ReadOutcomes :
          LET t == Called(tester)
              f == IF w = "open_fails" THEN t.files
                   ELSE t.files \cup {Named("test_dataset.json")}
          IN  tester' =
                 IF w # "ok" \/ r # "ok"
                 THEN RecordFailed([t EXCEPT !.files = f], "basic_dataset_test",
                             OSError)
                 ELSE RecordPassed([t EXCEPT !.files = f], "basic_dataset_test",
                             "File I/O operations successful")
    /\ UNCHANGED testerOthers

\* Lines 106-113: the entries, and whether "dataset" is in content.lower().
search_entries ==
    <<[id |-> 1, content |-> "LightRAG dataset integration", has_dataset |-> TRUE],
      [id |-> 2, content |-> "Cloudflare Worker setup",      has_dataset |-> FALSE],
      [id |-> 3, content |-> "Hugging Face datasets",        has_dataset |-> TRUE],
      [id |-> 4, content |-> "MCP server testing",           has_dataset |-> FALSE]>>

\* Lines 124-127.
dataset_entries ==
    {k \in 1..Len(search_entries) : search_entries[k].has_dataset}

\* Lines 102-144.
DatasetSearchTest ==
    /\ tester.pc = "idle"
    /\ tester.calls < MaxTestCalls
    /\ \E w \in WriteOutcomes, r \in ReadOutcomes :
          LET t == Called(tester)
              f == IF w = "open_fails" THEN t.files
                   ELSE t.files \cup {Named("search_dataset.json")}
          IN  tester' =
                 IF w # "ok" \/ r # "ok"
                 THEN RecordFailed([t EXCEPT !.files = f], "dataset_search_test",
                             OSError)
                 ELSE IF Cardinality(dataset_entries) # 2
                 THEN RecordFailed([t EXCEPT !.files = f], "dataset_search_test",
                             AssertionError)
                 ELSE RecordPassed([t EXCEPT !.files = f], "dataset_search_test",
                             "Found 2 dataset-related entries")
    /\ UNCHANGED testerOthers

\* Lines 146-205: the directory, the five files and the modified file, with
\* one outcome for the directory and the writes and one for the reads.
FileOperationsTest ==
    /\ tester.pc = "idle"
    /\ tester.calls < MaxTestCalls
    /\ \E w \in WriteOutcomes, r \in ReadOutcomes :
          LET t == Called(tester)
              f == IF w = "open_fails" THEN t.files
                   ELSE t.files \cup {Named("mcp_test_dir")}
          IN  tester' =
                 IF w # "ok" \/ r # "ok"
                 THEN RecordFailed([t EXCEPT !.files = f], "file_operations_test",
                             OSError)
                 ELSE RecordPassed([t EXCEPT !.files = f], "file_operations_test",
                             "Created 5 files, performed modifications")
    /\ UNCHANGED testerOthers

\* ---- async_dataset_processing_test

\* Line 59: range(3).
AsyncIndices == 0..2

\* Line 88: f"async_test_{index}.json".
Filename(index) ==
    [prefix |-> "async_test_", index |-> index, suffix |-> ".json"]

\* What a task that has not returned has for a value.
NoValue == [prefix |-> "", index |-> -1, suffix |-> ""]

\* Lines 51-55: the call, up to the await of asyncio.sleep(0.1).
CallAsyncDatasetProcessingTest ==
    /\ tester.pc = "idle"
    /\ tester.calls < MaxTestCalls
    /\ tester' = [Called(tester) EXCEPT !.pc = "async_sleep"]
    /\ UNCHANGED testerOthers

\* Lines 58-63: the three coroutines are made and handed to gather, which
\* schedules each as a task.
Gather ==
    /\ tester.pc = "async_sleep"
    /\ tester' = [tester EXCEPT
                     !.pc = "async_gather",
                     !.task_state = [k \in 1..Cardinality(AsyncIndices)
                                        |-> "scheduled"],
                     !.task_value = [k \in 1..Cardinality(AsyncIndices)
                                        |-> NoValue]]
    /\ UNCHANGED testerOthers

\* Lines 86-100: one task's body.  It has no await, so it runs in one piece;
\* which scheduled task the event loop runs next is the loop's choice.
CreateAsyncTestFile(index) ==
    /\ tester.pc = "async_gather"
    /\ tester.task_state[index + 1] = "scheduled"
    /\ \E w \in WriteOutcomes :
          tester' = [tester EXCEPT
                        !.files = IF w = "open_fails" THEN @
                                  ELSE @ \cup {Filename(index)},
                        !.task_state[index + 1] =
                            IF w = "ok" THEN "returned" ELSE "raised",
                        !.task_value[index + 1] =
                            IF w = "ok" THEN Filename(index) ELSE NoValue,
                        !.finished = Append(@, index)]
    /\ UNCHANGED testerOthers

\* A gather that lists the results in the order the tasks finished.
GatherResults_completionOrder(t) ==
    [k \in 1..Len(t.finished) |-> t.task_value[t.finished[k] + 1]]

\* asyncio.gather: the result list is in the order of the awaitables passed.
GatherResults(t) == t.task_value

\* Line 63 resumes: gather returns when every task has returned; it raises
\* the exception of a task as soon as one has raised.
GatherReturns ==
    /\ tester.pc = "async_gather"
    /\ IF \E k \in DOMAIN tester.task_state : tester.task_state[k] = "raised"
       THEN tester' = RecordFailed(tester, "async_dataset_processing_test", OSError)
       ELSE /\ \A k \in DOMAIN tester.task_state :
                  tester.task_state[k] # "scheduled"
            /\ tester' = [tester EXCEPT !.results = GatherResults(tester),
                                        !.pc = "async_check"]
    /\ UNCHANGED testerOthers

\* Lines 66-77: the two assertions on each result, then the passed entry.
CheckResults ==
    /\ tester.pc = "async_check"
    /\ tester' =
          IF \A k \in 1..Len(tester.results) :
                /\ tester.results[k] = Filename(k - 1)
                /\ tester.results[k] \in tester.files
          THEN RecordPassed(tester, "async_dataset_processing_test",
                      "Created 3 async test files")
          ELSE RecordFailed(tester, "async_dataset_processing_test", AssertionError)
    /\ UNCHANGED testerOthers

\* ---- task_management_test

\* Lines 211-217: five tasks, ids 1..5, all pending.  A task list is the
\* sequence of the statuses, the id being the place.
NewTasks == [k \in 1..5 |-> "pending"]

Count(tasks, status) ==
    Cardinality({k \in DOMAIN tasks : tasks[k] = status})

\* Line 225: the first file holds the tasks and a timestamp (ms after
\* 22:51:00) only.
FirstProgress(tasks) == [tasks |-> tasks, timestamp |-> 16420]

\* Lines 234-240.
ProgressData(tasks, k) ==
    [tasks             |-> tasks,
     completed_count   |-> Count(tasks, "completed"),
     in_progress_count |-> Count(tasks, "in_progress"),
     pending_count     |-> Count(tasks, "pending"),
     timestamp         |-> (16 + k) * 1000]

\* Lines 249-256.
FinalProgress(tasks) ==
    [tasks             |-> tasks,
     completed_count   |-> Len(tasks),
     in_progress_count |-> 0,
     pending_count     |-> 0,
     success_rate      |-> "100%",
     timestamp         |-> 21000]

\* with open(task_file, 'w') as f: json.dump(data, f): what it does to the
\* tester when it ends as w.
WriteTaskFile(t, data, w) ==
    CASE w = "ok"          -> [t EXCEPT !.task_file = data,
                                        !.written = Append(@, data)]
      [] w = "open_fails"  -> t
      [] w = "write_fails" -> [t EXCEPT !.task_file = Truncated]

\* Lines 207-225: the call, the task list, task 1 in progress, first write.
CallTaskManagementTest ==
    /\ tester.pc = "idle"
    /\ tester.calls < MaxTestCalls
    /\ \E w \in WriteOutcomes :
          LET tasks == [NewTasks EXCEPT ![1] = "in_progress"]
              t     == WriteTaskFile([Called(tester) EXCEPT !.tasks = tasks],
                                     FirstProgress(tasks), w)
          IN  tester' = IF w = "ok"
                        THEN [t EXCEPT !.pc = "task_loop", !.i = 0]
                        ELSE RecordFailed(t, "task_management_test", OSError)
    /\ UNCHANGED testerOthers

\* An iteration that leaves the previous task as it is.
Advance_leavesPrevious(tasks, k) == [tasks EXCEPT ![k + 1] = "in_progress"]

\* Lines 229-231, with i = k.
Advance(tasks, k) ==
    LET previous == IF k > 0 THEN [tasks EXCEPT ![k] = "completed"] ELSE tasks
    IN  [previous EXCEPT ![k + 1] = "in_progress"]

\* Lines 228-243: one iteration of the loop over range(len(tasks)).
UpdateProgress ==
    /\ tester.pc = "task_loop"
    /\ tester.i < Len(tester.tasks)
    /\ \E w \in WriteOutcomes :
          LET k     == tester.i
              tasks == Advance(tester.tasks, k)
              t     == WriteTaskFile([tester EXCEPT !.tasks = tasks],
                                     ProgressData(tasks, k), w)
          IN  tester' = IF w = "ok"
                        THEN [t EXCEPT !.i = k + 1]
                        ELSE RecordFailed(t, "task_management_test", OSError)
    /\ UNCHANGED testerOthers

\* A final step that marks no task.
MarkAllCompleted_marksNone(tasks) == tasks

\* Lines 246-247.
MarkAllCompleted(tasks) == [k \in DOMAIN tasks |-> "completed"]

\* Lines 245-259: every task is marked completed and the final progress is
\* written.
WriteFinalProgress ==
    /\ tester.pc = "task_loop"
    /\ tester.i = Len(tester.tasks)
    /\ \E w \in WriteOutcomes :
          LET tasks == MarkAllCompleted(tester.tasks)
              t     == WriteTaskFile([tester EXCEPT !.tasks = tasks],
                                     FinalProgress(tasks), w)
          IN  tester' = IF w = "ok"
                        THEN [t EXCEPT !.pc = "task_verify"]
                        ELSE RecordFailed(t, "task_management_test", OSError)
    /\ UNCHANGED testerOthers

\* Lines 261-275: the file is read back and checked.
VerifyTaskManagement ==
    /\ tester.pc = "task_verify"
    /\ \E r \in ReadOutcomes :
          LET final_data == tester.task_file
          IN  tester' =
                 IF r # "ok" \/ "tasks" \notin DOMAIN final_data
                 THEN RecordFailed(tester, "task_management_test", OSError)
                 ELSE IF ~ ({"completed_count", "success_rate"}
                               \subseteq DOMAIN final_data)
                 THEN RecordFailed(tester, "task_management_test", KeyError)
                 ELSE IF /\ final_data.completed_count = 5
                         /\ final_data.success_rate = "100%"
                         /\ Len(final_data.tasks) = 5
                 THEN RecordPassed(tester, "task_management_test",
                             "Successfully managed 5 tasks with progress tracking")
                 ELSE RecordFailed(tester, "task_management_test", AssertionError)
    /\ UNCHANGED testerOthers

\* ---- get_test_summary

\* f"{x:.1f}%" of x = (passed / total) * 100: the tenths, rounded half to
\* even.
OneDecimalPercent(passed, total) ==
    LET q == (passed * 1000) \div total
        r == (passed * 1000) % total
        up == 2 * r > total \/ (2 * r = total /\ q % 2 = 1)
    IN  [format |-> ".1f%", tenths |-> IF up THEN q + 1 ELSE q]

\* Lines 284-296.
TestSummary(test_results) ==
    LET total_tests  == Len(test_results)
        passed_tests == Cardinality({k \in 1..total_tests :
                                        test_results[k].status = "passed"})
        failed_tests == total_tests - passed_tests
    IN  [total_tests  |-> total_tests,
         passed       |-> passed_tests,
         failed       |-> failed_tests,
         success_rate |-> IF total_tests > 0
                          THEN OneDecimalPercent(passed_tests, total_tests)
                          ELSE [format |-> "0%", tenths |-> 0],
         results      |-> test_results]

\* A caller asks for the summary between two test methods (line 333).
GetTestSummary ==
    /\ tester.pc = "idle"
    /\ tester.summarized # tester.calls
    /\ tester' = [tester EXCEPT !.summary = TestSummary(tester.test_results),
                                !.summarized = tester.calls]
    /\ UNCHANGED testerOthers

InitTester ==
    /\ tester = NewTester
    /\ request = NoRequest
    /\ processing = NoProcessing
    /\ hf = HfIdle
    /\ pc = "tester"
    /\ OthersIdle

NextTester ==
    \/ BasicDatasetTest
    \/ CallAsyncDatasetProcessingTest
    \/ Gather
    \/ \E index \in AsyncIndices : CreateAsyncTestFile(index)
    \/ GatherReturns
    \/ CheckResults
    \/ DatasetSearchTest
    \/ FileOperationsTest
    \/ CallTaskManagementTest
    \/ UpdateProgress
    \/ WriteFinalProgress
    \/ VerifyTaskManagement
    \/ GetTestSummary

SpecTester == InitTester /\ [][NextTester]_vars

\* --- examples/lightrag_hf_cloudflare_dataset_demo.py: CloudflareWorker

\* What the HTTP exchange of line 64 gives: requests.post raises, .json()
\* raises on a body that is not JSON, or the JSON value.  A JSON value is
\* described by its type; for an object, by its "result" member.  For a
\* result, has_data and has_response say what `"data" in result` and
\* `"response" in result` give (membership for an object or an array,
\* substring for a string).
Results ==
    {[type |-> "absent", has_data |-> FALSE, has_response |-> FALSE,
      data |-> "null", response |-> "null"],
     [type |-> "null", has_data |-> FALSE, has_response |-> FALSE,
      data |-> "null", response |-> "null"]}
    \cup [type : {"object"}, has_data : BOOLEAN, has_response : BOOLEAN,
          data : {"vectors", "null"}, response : {"text", "null"}]
    \cup [type : {"string", "array"}, has_data : BOOLEAN,
          has_response : BOOLEAN, data : {"null"}, response : {"null"}]

NoResult == [type |-> "absent", has_data |-> FALSE, has_response |-> FALSE,
             data |-> "null", response |-> "null"]

Exchanges ==
    [transport : {"ConnectionError", "JSONDecodeError"},
     body : {"none"}, result : {NoResult}]
    \cup [transport : {"ok"}, body : {"array", "null"}, result : {NoResult}]
    \cup [transport : {"ok"}, body : {"object"}, result : Results]

\* Python's None, and the two values _send_request builds.
None == [kind |-> "None", of |-> "null"]
Array(data) == [kind |-> "np.array", of |-> data]
Response(value) ==
    IF value = "null" THEN None ELSE [kind |-> "str", of |-> value]

\* Lines 64-66.
Post(exchange) ==
    IF exchange.transport # "ok"
    THEN [raised |-> exchange.transport, value |-> None]
    ELSE [raised |-> "nothing", value |-> None]

\* Lines 69-78 on the parsed body: what is returned or raised.
Interpret(exchange) ==
    LET result == exchange.result
    IN  IF exchange.body # "object"
        THEN [raised |-> "AttributeError", value |-> None]
        ELSE IF result.type = "null"
        THEN [raised |-> "TypeError", value |-> None]
        ELSE IF result.has_data
        THEN IF result.type = "object"
             THEN [raised |-> "nothing", value |-> Array(result.data)]
             ELSE [raised |-> "TypeError", value |-> None]
        ELSE IF result.has_response
        THEN IF result.type = "object"
             THEN [raised |-> "nothing", value |-> Response(result.response)]
             ELSE [raised |-> "TypeError", value |-> None]
        ELSE [raised |-> "ValueError", value |-> None]

\* The classes `except Exception` catches among those the body raises.
ExceptionSubclasses ==
    {"ConnectionError", "JSONDecodeError", "AttributeError", "TypeError",
     "ValueError"}

\* A handler for the ValueError of line 78 only.
Catches_valueErrorOnly(exception) == exception = "ValueError"

\* Line 80: except Exception.
Catches(exception) == exception \in ExceptionSubclasses

\* Lines 83-102 and 104-117 up to the call of _send_request.
InitWorker ==
    /\ request \in [pc : {"called"}, method : {"query", "embedding_chunk"},
                    exchange : Exchanges, raised : {"nothing"},
                    value : {None}, logged : {<<>>}, caller : {None}]
    /\ tester = NewTester
    /\ processing = NoProcessing
    /\ hf = HfIdle
    /\ pc = "worker"
    /\ OthersIdle

workerOthers ==
    <<tester, processing, runs, std_calc, hf, pc, args, demonstrator,
      questions, formatted_results, loopVars, in_flight, outcomes, events,
      summary, analysis>>

\* Lines 59-66: the request is sent and the body parsed.
SendRequest ==
    /\ request.pc = "called"
    /\ LET p == Post(request.exchange)
       IN  request' = [request EXCEPT
                          !.pc = IF p.raised = "nothing" THEN "parsed"
                                 ELSE "except",
                          !.raised = p.raised]
    /\ UNCHANGED workerOthers

\* Lines 68-78.
InterpretResponse ==
    /\ request.pc = "parsed"
    /\ LET r == Interpret(request.exchange)
       IN  request' = [request EXCEPT
                          !.pc = IF r.raised = "nothing" THEN "returned"
                                 ELSE "except",
                          !.raised = r.raised,
                          !.value = r.value]
    /\ UNCHANGED workerOthers

\* Lines 80-82: the exception is logged and None returned.
HandleRequestError ==
    /\ request.pc = "except"
    /\ request' = IF Catches(request.raised)
                  THEN [request EXCEPT
                           !.pc = "returned",
                           !.value = None,
                           !.logged = Append(@, "Cloudflare API error")]
                  ELSE [request EXCEPT !.pc = "raised"]
    /\ UNCHANGED workerOthers

\* Lines 98 and 113: query / embedding_chunk return what _send_request
\* returned.
ReturnToCaller ==
    /\ request.pc = "returned"
    /\ request' = [request EXCEPT !.pc = "done", !.caller = request.value]
    /\ UNCHANGED workerOthers

NextWorker ==
    \/ SendRequest
    \/ InterpretResponse
    \/ HandleRequestError
    \/ ReturnToCaller

SpecWorker == InitWorker /\ [][NextWorker]_vars

\* --- examples/lightrag_hf_cloudflare_dataset_demo.py: process_dataset_entries

\* A string is the sequence of its pieces; " " and "\n" are the whitespace
\* pieces.  A value of a row is a string, None, an integer, or is absent
\* (the row has no such key).
StrValue(s) == [type |-> "str", s |-> s, n |-> 0]
IntValue(n) == [type |-> "int", s |-> <<>>, n |-> n]
NullValue == [type |-> "None", s |-> <<>>, n |-> 0]
Absent == [type |-> "absent", s |-> <<>>, n |-> 0]

Whitespace == {" ", "\n"}

\* str.strip(): the string without its leading and trailing whitespace.
RECURSIVE LStrip(_)
LStrip(s) ==
    IF s # <<>> /\ Head(s) \in Whitespace THEN LStrip(Tail(s)) ELSE s

RECURSIVE RStrip(_)
RStrip(s) ==
    IF s # <<>> /\ s[Len(s)] \in Whitespace
    THEN RStrip(SubSeq(s, 1, Len(s) - 1))
    ELSE s

Strip(s) == RStrip(LStrip(s))

\* bool(v) and str(v) of a value.
Truthy(v) ==
    CASE v.type = "str"  -> v.s # <<>>
      [] v.type = "int"  -> v.n # 0
      [] OTHER           -> FALSE

StrOf(v) ==
    CASE v.type = "str"  -> v.s
      [] v.type = "int"  -> <<ToString(v.n)>>
      [] OTHER           -> <<"None">>

\* The keys of a row, in the order of entry.items().
RowKeys == <<"text", "content", "title", "label">>

HasKey(entry, key) == entry[key].type # "absent"

\* Line 223: "\n".join([f"{k}: {v}" for k, v in entry.items() if v]).
RECURSIVE JoinLines(_, _)
JoinLines(entry, keys) ==
    IF keys = <<>> THEN <<>>
    ELSE LET k    == Head(keys)
             rest == JoinLines(entry, Tail(keys))
         IN  IF HasKey(entry, k) /\ Truthy(entry[k])
             THEN <<k, ": ">> \o StrOf(entry[k])
                     \o (IF rest = <<>> THEN <<>> ELSE <<"\n">> \o rest)
             ELSE rest

\* Lines 216-226: the value taken for text_content.
TextContent(entry) ==
    IF HasKey(entry, "text") THEN entry.text
    ELSE IF HasKey(entry, "content") THEN entry.content
    ELSE IF entry.isdict THEN StrValue(JoinLines(entry, RowKeys))
    ELSE StrValue(<<"str(entry)">>)

\* A test that keeps every text that is not the empty string.
IsValid_nonEmpty(text_content) == text_content.s # <<>>

\* Line 228: text_content.strip() is not empty.
IsValid(text_content) == Strip(text_content.s) # <<>>

\* Lines 214-236 for one entry: the list after it, and whether a warning was
\* logged.  text_content.strip() raises AttributeError for None or a number.
ProcessEntry(texts_to_insert, entry) ==
    LET text_content == TextContent(entry)
    IN  IF text_content.type # "str"
        THEN [texts |-> texts_to_insert, warned |-> TRUE]
        ELSE IF IsValid(text_content)
        THEN [texts |-> Append(texts_to_insert, text_content.s),
              warned |-> FALSE]
        ELSE [texts |-> texts_to_insert, warned |-> FALSE]

Row(text, content, title, label) ==
    [isdict |-> TRUE, text |-> text, content |-> content, title |-> title,
     label |-> label]

\* The rows tried: with a text column (None, blank, padded or plain, with or
\* without a content column), with a content column only, and with neither
\* (values that are empty, zero or absent included).
Rows ==
    {Row(t, c, Absent, Absent) :
        t \in {NullValue, StrValue(<<" ", "\n">>), StrValue(<<" ", "a", " ">>)},
        c \in {Absent, StrValue(<<"b">>)}}
    \cup {Row(Absent, c, StrValue(<<"c">>), Absent) :
             c \in {NullValue, IntValue(7), StrValue(<<>>), StrValue(<<"b">>)}}
    \cup {Row(Absent, Absent, t, l) :
             t \in {Absent, StrValue(<<>>), StrValue(<<"c">>)},
             l \in {Absent, IntValue(0), IntValue(1)}}

RowLists == UNION {[1..n -> Rows] : n \in 0..MaxEntries}

\* A row of a split that is not the one processed.
OtherRow == Row(StrValue(<<"other split">>), Absent, Absent, Absent)

\* The dataset: its splits in the order of dataset.keys().
Datasets(rows) ==
    {<<[name |-> "train", rows |-> rows]>>,
     <<[name |-> "test", rows |-> <<OtherRow>>],
       [name |-> "train", rows |-> rows]>>,
     <<[name |-> "validation", rows |-> rows],
       [name |-> "test", rows |-> <<OtherRow>>]>>}

\* Lines 208-211.
DataSplit(dataset) ==
    IF \E k \in 1..Len(dataset) : dataset[k].name = "train"
    THEN (CHOOSE split \in {dataset[k] : k \in 1..Len(dataset)} :
             split.name = "train").rows
    ELSE dataset[1].rows

InitProcessing ==
    /\ \E rows \in RowLists : \E dataset \in Datasets(rows) :
          processing = [pc |-> "called", dataset |-> dataset,
                        expected |-> rows, data_split |-> <<>>, i |-> 0,
                        texts_to_insert |-> <<>>, from |-> <<>>,
                        warnings |-> <<>>, returned |-> <<>>]
    /\ tester = NewTester
    /\ request = NoRequest
    /\ hf = HfIdle
    /\ pc = "processing"
    /\ OthersIdle

processingOthers ==
    <<tester, request, runs, std_calc, hf, pc, args, demonstrator,
      questions, formatted_results, loopVars, in_flight, outcomes, events,
      summary, analysis>>

\* Lines 205-213.
SelectSplit ==
    /\ processing.pc = "called"
    /\ processing' = [processing EXCEPT
                         !.pc = "loop",
                         !.data_split = DataSplit(processing.dataset)]
    /\ UNCHANGED processingOthers

\* Lines 213-236: one iteration; `from` notes the row each text came from.
ProcessNextEntry ==
    /\ processing.pc = "loop"
    /\ processing.i < Len(processing.data_split)
    /\ LET k == processing.i
           r == ProcessEntry(processing.texts_to_insert,
                             processing.data_split[k + 1])
       IN  processing' = [processing EXCEPT
                             !.i = k + 1,
                             !.texts_to_insert = r.texts,
                             !.from = IF r.texts # processing.texts_to_insert
                                      THEN Append(@, k) ELSE @,
                             !.warnings = IF r.warned THEN Append(@, k)
                                          ELSE @]
    /\ UNCHANGED processingOthers

\* Lines 238-240.
ReturnTexts ==
    /\ processing.pc = "loop"
    /\ processing.i = Len(processing.data_split)
    /\ processing' = [processing EXCEPT
                         !.pc = "returned",
                         !.returned = processing.texts_to_insert]
    /\ UNCHANGED processingOthers

NextProcessing ==
    \/ SelectSplit
    \/ ProcessNextEntry
    \/ ReturnTexts

SpecProcessing == InitProcessing /\ [][NextProcessing]_vars

\* ------------------------------------------------------------ observations

\* The run has returned from run_queries_batch.
Returned == pc \in {"returned", "completed"}

NumQuestions == Len(questions)

\* <<1, 2, ..., n>>
Upto(n) == IF n <= 0 THEN <<>> ELSE [k \in 1..n |-> k]

EventsOf(ty) == SelectSeq(events, LAMBDA e : e.type = ty)

ItemsOf(ty) == LET s == EventsOf(ty) IN [k \in DOMAIN s |-> s[k].item]

\* The responder call of item k failed: it raised, or returned None.
Failed(k) == outcomes[k] \in {"raise", "none"}

ErrorKinds == {"connection_error", "error"}

CountOutcomes(S) == Cardinality({k \in DOMAIN outcomes : outcomes[k] \in S})

WorkerPresent == demonstrator.cloudflare_worker # "None"

\* ----------------------------------------------------------------- claims

\* C1: for batch_size >= 1 and any mix of responder outcomes, the run
\* completes (no exception leaves it) and returns exactly one formatted
\* result per prompt, with exactly one results entry per prompt.
C1_OneResultPerPrompt ==
    /\ Len(formatted_results) = Len(demonstrator.results)
    /\ Len(formatted_results) <= NumQuestions
    /\ args.batch_size >= 1 => pc # "exit_1"
    /\ (Returned /\ args.batch_size >= 1) =>
          /\ Len(formatted_results) = NumQuestions
          /\ Len(demonstrator.results) = NumQuestions

C1_Witness ==
    /\ pc = "returned"
    /\ args.batch_size = 2
    /\ NumQuestions = 3
    /\ outcomes = <<"text", "raise", "none">>
    /\ Len(formatted_results) = 3

\* C2: the k-th result carries ordinal k and the k-th submitted prompt, in
\* the returned list and in self.results alike, and once the run has
\* returned (batch_size >= 1) the ordinals are exactly 1..n.
C2_ResultsInSubmissionOrder ==
    /\ \A k \in DOMAIN formatted_results :
          /\ formatted_results[k].question_number = k
          /\ formatted_results[k].question = questions[k]
    /\ \A k \in DOMAIN demonstrator.results :
          /\ demonstrator.results[k].question_number = k
          /\ demonstrator.results[k].question = questions[k]
    /\ (Returned /\ args.batch_size >= 1) =>
          DOMAIN formatted_results = 1..NumQuestions

C2_Witness ==
    /\ pc = "returned"
    /\ args.batch_size = 2
    /\ NumQuestions = 3
    /\ Failed(2)
    /\ formatted_results[3].question_number = 3
    /\ formatted_results[3].question = "Q03"

\* C3: a responder failure never leaves query_krishna_topic or
\* run_queries_batch (the only exception that ends a run is range()'s
\* rejection of a zero batch size); the failed item gets a result holding an
\* error text, and every later item is still queried, so a returned run with
\* a worker has issued the calls of items 1..n in order.
C3_FailureContained ==
    /\ pc = "exit_1" => args.batch_size = 0
    /\ \A k \in DOMAIN outcomes :
          Failed(k) => /\ k \in DOMAIN formatted_results
                       /\ formatted_results[k].answer.kind \in ErrorKinds
    /\ (Returned /\ args.batch_size >= 1 /\ WorkerPresent) =>
          ItemsOf("call") = Upto(NumQuestions)

C3_Witness ==
    /\ pc = "returned"
    /\ NumQuestions = 3
    /\ outcomes = <<"none", "raise", "text">>
    /\ ItemsOf("call") = <<1, 2, 3>>

\* C4 (as claimed): whenever the responder call of an item fails, the item's
\* result has an error text, and a latency of exactly 0.
C4_FailureRecordedWithZeroLatency ==
    \A k \in DOMAIN formatted_results :
        Failed(k) =>
            /\ formatted_results[k].answer.kind \in ErrorKinds
            /\ demonstrator.results[k].response_time = 0
            /\ formatted_results[k].response_time_x100 = 0

\* C5 (as claimed): after a run with a responder, successful_queries is the
\* number of items whose call succeeded, connectivity_issues the number
\* whose call failed, and the two add up to n.
C5_EveryItemInOneTally ==
    (Returned /\ args.batch_size >= 1 /\ WorkerPresent) =>
        /\ demonstrator.successful_queries = CountOutcomes({"text"})
        /\ demonstrator.connectivity_issues = CountOutcomes({"raise", "none"})
        /\ demonstrator.successful_queries + demonstrator.connectivity_issues
              = NumQuestions

\* The summary shows every latency statistic as 0.
StatisticsAtSentinel(s) ==
    /\ s.min_latency = Zero
    /\ s.max_latency = Zero
    /\ s.median_latency = Zero
    /\ s.p95_latency = Zero
    /\ s.p99_latency = Zero
    /\ s.std_deviation = Zero
    /\ s.consistency_score = Zero
    /\ s.avg_response_time = Zero

\* C6 (as claimed): when the responder fails on every one of n >= 1 items,
\* the summary has successful == 0, failed == n and every latency statistic
\* at the sentinel.
C6_AllFailedSummary ==
    (/\ pc = "completed"
     /\ NumQuestions >= 1
     /\ Len(outcomes) = NumQuestions
     /\ \A k \in DOMAIN outcomes : Failed(k)) =>
        /\ summary.successful_queries = 0
        /\ summary.connectivity_issues = NumQuestions
        /\ StatisticsAtSentinel(summary)

\* C7 (as claimed): every recorded time that passes the t > 0 filter of
\* analyze_latency_patterns belongs to an item whose call did not fail.
C7_OnlySuccessfulLatenciesAnalysed ==
    \A k \in DOMAIN demonstrator.response_times :
        demonstrator.response_times[k] > 0 => ~Failed(k)

\* C8 (as claimed): with --demo no call to cloudflare_worker.query is made
\* and every answer is the fixed placeholder text.
C8_DemoBypassesResponder ==
    args.demo =>
        /\ EventsOf("call") = <<>>
        /\ \A k \in DOMAIN formatted_results :
              formatted_results[k].answer = PlaceholderText

\* The index in events of the first event of the given type for item k.
EventIndex(ty, k) ==
    CHOOSE x \in DOMAIN events : events[x].type = ty /\ events[x].item = k

HasEvent(ty, k) == \E x \in DOMAIN events : events[x].type = ty /\ events[x].item = k

\* C9: with delay > 0 the run sleeps once after every item but the last
\* (sleeps after items 1..n-1 when it has returned), each sleep follows the
\* recording of its item and precedes the query of the next item; with
\* delay == 0 it never sleeps.
C9_PacingBetweenItems ==
    /\ args.delay = 0 => (pc # "sleeping" /\ EventsOf("sleep") = <<>>)
    /\ pc = "sleeping" => (i < NumQuestions /\ in_flight = {})
    /\ \A x \in DOMAIN events :
          events[x].type = "sleep" =>
              /\ events[x].item < NumQuestions
              /\ x > 1
              /\ events[x - 1] = [events[x] EXCEPT !.type = "result"]
              /\ \A y \in 1..x : events[y].item <= events[x].item
    /\ args.delay > 0 =>
          \A y \in DOMAIN events :
              (events[y].type \in {"call", "result"} /\ events[y].item > 1) =>
                  /\ HasEvent("sleep", events[y].item - 1)
                  /\ EventIndex("sleep", events[y].item - 1) < y
    /\ (Returned /\ args.delay > 0 /\ args.batch_size >= 1) =>
          ItemsOf("sleep") = Upto(NumQuestions - 1)

C9_Witness ==
    /\ pc = "returned"
    /\ args.delay > 0
    /\ args.batch_size = 2
    /\ NumQuestions = 3
    /\ WorkerPresent
    /\ ItemsOf("sleep") = <<1, 2>>
    /\ events[Len(events) - 1].type = "result"

\* C10: at most one responder call is in flight, it is the call of the
\* item the loop stands at, and the call of item k+1 is issued only after the
\* result of item k was recorded.
C10_OneCallInFlight ==
    /\ Cardinality(in_flight) <= 1
    /\ in_flight = IF pc = "awaiting" THEN {i} ELSE {}
    /\ \A y \in DOMAIN events :
          (events[y].type = "call" /\ events[y].item > 1) =>
              /\ HasEvent("result", events[y].item - 1)
              /\ EventIndex("result", events[y].item - 1) < y
    /\ \A y \in DOMAIN events :
          events[y].type = "call" =>
              Cardinality({x \in 1..y : events[x].type = "call"})
                 = 1 + Cardinality({x \in 1..y : events[x].type = "result"})

C10_Witness ==
    /\ pc = "awaiting"
    /\ i = 3
    /\ in_flight = {3}
    /\ Len(demonstrator.results) = 2

RECURSIVE Concat(_)
Concat(ss) == IF ss = <<>> THEN <<>> ELSE Head(ss) \o Concat(Tail(ss))

\* ceil(a / b) for b > 0
CeilDiv(a, b) == (a + b - 1) \div b

\* C11: for batch_size >= 1 the chunks taken are contiguous and in order (their
\* concatenation is a prefix of the prompt list, and the whole list once the
\* run has returned), none is empty, none has more than batch_size items,
\* every chunk but the last taken has exactly batch_size items, and a
\* returned run has taken ceil(n / batch_size) chunks.
C11_ChunksPartitionPrompts ==
    args.batch_size >= 1 =>
        /\ \A c \in DOMAIN chunks :
              /\ Len(chunks[c]) >= 1
              /\ Len(chunks[c]) <= args.batch_size
              /\ c < Len(chunks) => Len(chunks[c]) = args.batch_size
        /\ Len(Concat(chunks)) <= NumQuestions
        /\ Concat(chunks) = SubSeq(questions, 1, Len(Concat(chunks)))
        /\ Returned =>
              /\ Concat(chunks) = questions
              /\ Len(chunks) = CeilDiv(NumQuestions, args.batch_size)

C11_Witness ==
    /\ pc = "returned"
    /\ args.batch_size = 2
    /\ chunks = << <<"Q01", "Q02">>, <<"Q03">> >>

\* What a run without chunks leaves behind: the items queried one after the
\* other, item k with the k-th prompt, the k-th scripted outcome and the k-th
\* scripted elapsed time, starting from demonstrator d.
RECURSIVE UnchunkedRun(_, _, _, _, _)
UnchunkedRun(d, qs, outs, times, k) ==
    IF k = 0 THEN [d |-> d, formatted |-> <<>>]
    ELSE LET before == UnchunkedRun(d, qs, outs, times, k - 1)
             q      == QueryKrishnaTopic(before.d, qs[k], outs[k], times[k])
         IN  [d |-> [q.d EXCEPT !.results =
                        Append(@, StoredResult(k, qs[k], q))],
              formatted |-> Append(before.formatted,
                                   FormatResult(k, qs[k], q.response_time,
                                                q.answer))]

\* The calls, results and pacing sleeps of a run without chunks, in order.
RECURSIVE UnchunkedEvents(_, _, _, _)
UnchunkedEvents(n, delay, called, k) ==
    IF k = 0 THEN <<>>
    ELSE UnchunkedEvents(n, delay, called, k - 1)
         \o (IF called THEN <<ItemEvent("call", k)>> ELSE <<>>)
         \o <<ItemEvent("result", k)>>
         \o (IF delay > 0 /\ k < n THEN <<ItemEvent("sleep", k)>> ELSE <<>>)

\* The demonstrator as the run found it: nothing recorded, worker in place.
BeforeRun == [NewDemonstrator EXCEPT
                 !.cloudflare_worker = demonstrator.cloudflare_worker]

\* C12: against a scripted responder (outcome and elapsed time fixed per
\* item) a returned run with any batch_size >= 1 leaves exactly what the run
\* without chunks leaves: the same results in the same order, the same
\* tallies, and the same calls and pacing sleeps at the same places; so
\* batch_size = 1, batch_size = n and every size in between agree.
C12_ChunkingDoesNotChangeResults ==
    (Returned /\ args.batch_size >= 1) =>
        LET ref == UnchunkedRun(BeforeRun, questions, outcomes,
                                demonstrator.response_times, NumQuestions)
        IN  /\ Len(outcomes) = NumQuestions
            /\ Len(demonstrator.response_times) = NumQuestions
            /\ formatted_results = ref.formatted
            /\ demonstrator = ref.d
            /\ SelectSeq(events, LAMBDA e : e.type # "progress")
                  = UnchunkedEvents(NumQuestions, args.delay, WorkerPresent,
                                    NumQuestions)

C12_Witness ==
    /\ pc = "returned"
    /\ args.batch_size = 1
    /\ args.delay > 0
    /\ NumQuestions = 3
    /\ outcomes = <<"text", "none", "raise">>
    /\ Len(chunks) = 3

\* What an empty prompt list leaves of the run itself: nothing returned,
\* nothing recorded, no call, no sleep, no progress note, both tallies at 0.
EmptyRunLeavesNothing ==
    /\ formatted_results = <<>>
    /\ demonstrator.results = <<>>
    /\ demonstrator.response_times = <<>>
    /\ demonstrator.successful_queries = 0
    /\ demonstrator.connectivity_issues = 0
    /\ events = <<>>
    /\ chunks = <<>>
    /\ in_flight = {}

\* C13 (as claimed): an empty prompt list yields an empty result list with no
\* call and no sleep, and the summary generated afterwards is a report with
\* total 0, successful 0, failed 0 and the latency statistics at the sentinel.
C13_EmptyRunZeroFilledSummary ==
    (NumQuestions = 0 /\ pc \notin {"main", "exit_1"}) =>
        /\ EmptyRunLeavesNothing
        /\ pc = "completed" =>
              /\ summary.kind = "report"
              /\ summary.total_questions = 0
              /\ summary.successful_queries = 0
              /\ summary.connectivity_issues = 0
              /\ StatisticsAtSentinel(summary)

\* C13 (amended): an empty prompt list yields an empty result list with no
\* call and no sleep (for any batch size but 0, which makes range() raise),
\* and generate_summary afterwards raises nothing and returns the fixed text
\* "No results to summarize.", which holds no figures.
C13_EmptyRunNoResultsText ==
    (NumQuestions = 0 /\ pc # "main") =>
        /\ EmptyRunLeavesNothing
        /\ pc = "exit_1" => args.batch_size = 0
        /\ args.batch_size # 0 => pc \in {"run", "batch", "returned", "completed"}
        /\ pc = "completed" => summary = NoResultsSummary
        /\ analysis = NoAnalysis

C13_Witness ==
    /\ pc = "completed"
    /\ args.questions = 0
    /\ args.batch_size = 2
    /\ questions = <<>>
    /\ formatted_results = <<>>
    /\ summary = NoResultsSummary

\* ------------------------------------------------ claims on the analysis

\* The recorded times that are greater than 0, written without the model's
\* filter.
TimesAboveZero ==
    LET rt == demonstrator.response_times
    IN  {k \in DOMAIN rt : rt[k] > 0}

LatencyKeys ==
    {"min_latency", "max_latency", "median_latency", "p95_latency",
     "p99_latency", "std_deviation", "consistency_score"}

\* generate_summary has produced a report.
Reported == summary.kind = "report"

\* analyze_latency_patterns has been called on the object as it is now.
AnalysisCalled == analysis.calls > 0

IsOrderStatistic(v, j) ==
    LET rt == demonstrator.response_times
    IN  /\ Cardinality({k \in TimesAboveZero : rt[k] < v}) <= j
        /\ Cardinality({k \in TimesAboveZero : rt[k] <= v}) > j

\* C15: for n >= 1 latencies above zero, the median is the element at index
\* floor(n/2) of the ascending sort, p95 the one at index floor(n*0.95), p99
\* the one at index floor(n*0.99), min and max are the extrema, and
\* min <= median <= p95 <= p99 <= max.
C15_OrderStatistics ==
    (AnalysisCalled /\ TimesAboveZero # {}) =>
        LET rt == demonstrator.response_times
            n  == Cardinality(TimesAboveZero)
            v  == analysis.value
        IN  /\ LatencyKeys \subseteq DOMAIN v
            /\ \A key \in LatencyKeys \ {"std_deviation", "consistency_score"} :
                  v[key].den = 1
            /\ \A k \in TimesAboveZero :
                  v.min_latency.num <= rt[k] /\ rt[k] <= v.max_latency.num
            /\ \E k \in TimesAboveZero : rt[k] = v.min_latency.num
            /\ \E k \in TimesAboveZero : rt[k] = v.max_latency.num
            /\ \E j \in 0..(n - 1) :
                  /\ 2 * j <= n /\ n < 2 * (j + 1)
                  /\ IsOrderStatistic(v.median_latency.num, j)
            /\ \E j \in 0..(n - 1) :
                  /\ 100 * j <= 95 * n /\ 95 * n < 100 * (j + 1)
                  /\ IsOrderStatistic(v.p95_latency.num, j)
            /\ \E j \in 0..(n - 1) :
                  /\ 100 * j <= 99 * n /\ 99 * n < 100 * (j + 1)
                  /\ IsOrderStatistic(v.p99_latency.num, j)
            /\ v.min_latency.num <= v.median_latency.num
            /\ v.median_latency.num <= v.p95_latency.num
            /\ v.p95_latency.num <= v.p99_latency.num
            /\ v.p99_latency.num <= v.max_latency.num

C15_Witness ==
    /\ pc = "loaded"
    /\ AnalysisCalled
    /\ Cardinality(TimesAboveZero) = 21
    /\ Len(demonstrator.response_times) = 22
    /\ analysis.value.min_latency.num < analysis.value.median_latency.num
    /\ analysis.value.median_latency.num < analysis.value.p95_latency.num
    /\ analysis.value.p95_latency.num < analysis.value.p99_latency.num

\* C17: a call of analyze_latency_patterns leaves response_times, results
\* and both tallies (the whole object) as they were, and a call that follows
\* another call, with no query in between, returns the value the earlier
\* call returned.
C17_AnalyzeIdempotentNoSideEffect ==
    [][analysis'.calls = analysis.calls + 1 =>
          /\ demonstrator'.response_times = demonstrator.response_times
          /\ demonstrator'.results = demonstrator.results
          /\ demonstrator'.successful_queries = demonstrator.successful_queries
          /\ demonstrator'.connectivity_issues = demonstrator.connectivity_issues
          /\ demonstrator' = demonstrator
          /\ AnalysisCalled => analysis'.value = analysis.value]_vars

C17_Witness ==
    /\ pc = "loaded"
    /\ analysis.calls = 2
    /\ demonstrator.response_times = <<2, 0, 1>>
    /\ analysis.value.median_latency = Frac(2, 1)

\* C18: whenever the analysis computes a consistency score, the sum it
\* divides by (the sum of the latencies used, those above zero) is greater
\* than 0; when that sum is not positive no score is computed and the report
\* shows 0 for it.
C18_NoDivisionByZero ==
    LET rt   == demonstrator.response_times
        used == SumSeq([k \in DOMAIN rt |-> IF rt[k] > 0 THEN rt[k] ELSE 0])
    IN  /\ AnalysisCalled =>
              IF "consistency_score" \in DOMAIN analysis.value
              THEN /\ analysis.value.consistency_score.den > 0
                   /\ analysis.value.consistency_score.den = used
              ELSE used = 0
        /\ Reported =>
              /\ summary.consistency_score.den > 0
              /\ used = 0 => summary.consistency_score = Zero

C18_Witness ==
    /\ pc = "loaded"
    /\ demonstrator.response_times = <<0, 2, 0>>
    /\ AnalysisCalled
    /\ analysis.value.consistency_score = Frac(2, 2)
    /\ Reported

\* ------------------------------------------------- claims on the progress

\* The number of items in the first c chunks.
RECURSIVE ItemsUpTo(_)
ItemsUpTo(c) == IF c = 0 THEN 0 ELSE ItemsUpTo(c - 1) + Len(chunks[c])

\* The chunks whose last item has been recorded and, if it is paced, slept on.
FinishedChunks ==
    IF chunks = <<>> THEN 0
    ELSE IF pc \in {"item", "sleeping"} \/ in_flight # {} THEN Len(chunks) - 1
    ELSE Len(chunks)

\* C19 (as claimed): after each finished chunk, and only then, there is
\* exactly one progress notification; it carries the fraction complete
\* (items finished / total); the notified fractions increase strictly and the
\* last one of a returned run is 100%.
C19_ProgressAfterEachChunk ==
    (args.batch_size >= 1 /\ pc \notin {"main", "run", "exit_1"}) =>
        LET notes == EventsOf("progress")
        IN  /\ Len(notes) = FinishedChunks
            /\ \A c \in DOMAIN notes :
                  /\ notes[c].item = ItemsUpTo(c)
                  /\ \E x \in DOMAIN events :
                        /\ events[x] = notes[c]
                        /\ x > 1
                        /\ events[x - 1].type \in {"result", "sleep"}
                        /\ events[x - 1].item = ItemsUpTo(c)
                  /\ notes[c].message =
                        PercentMessage(Frac(ItemsUpTo(c) * 100, NumQuestions))
                  /\ c > 1 => notes[c - 1].message.value.num
                                 < notes[c].message.value.num
            /\ (Returned /\ notes # <<>>) =>
                  notes[Len(notes)].message = PercentMessage(Frac(100, 1))
                  \/ notes[Len(notes)].message
                        = PercentMessage(Frac(NumQuestions * 100, NumQuestions))

\* --------------------------------------------- claims on the dataset demo

ConfigurationErrors ==
    {"ValueError: Please set CLOUDFLARE_API_KEY environment variable",
     "ValueError: Please set CLOUDFLARE_ACCOUNT_ID environment variable"}

\* A credential is left at its placeholder.
ConfigurationMissing ==
    \/ hf.cloudflare_api_key = KeyPlaceholder
    \/ hf.account_id = AccountPlaceholder

\* main has had no effect but raising: no file deleted, no RAG instance, no
\* embedding requested, no dataset loaded, nothing inserted, no query issued.
NoEffectOfTheRun ==
    /\ hf.deleted = {}
    /\ hf.rag = "unbound"
    /\ hf.finalize_calls = 0
    /\ hf.embedding = "not requested"
    /\ hf.dataset = "not loaded"
    /\ ~hf.inserted
    /\ hf.attempted = <<>>

\* The configuration error is raised once, first of all, and ends the run.
ConfigurationErrorFirst ==
    (ConfigurationMissing /\ pc # "hf_main") =>
        /\ Len(hf.raised) = 1
        /\ hf.raised[1] \in ConfigurationErrors
        /\ hf.cloudflare_api_key = KeyPlaceholder =>
              hf.raised[1] = "ValueError: Please set CLOUDFLARE_API_KEY environment variable"
        /\ NoEffectOfTheRun
        /\ pc \in {"hf_except", "hf_finally", "hf_raised"}
        /\ pc = "hf_raised" => hf.propagated = hf.raised[1]

\* C20 (as claimed): missing configuration raises a configuration error
\* exactly once, before any query and before any other effect of the run,
\* and no other class of error aborts the run early.
C20_OnlyConfigurationErrorAborts ==
    /\ ConfigurationErrorFirst
    /\ pc = "hf_raised" => hf.propagated \in ConfigurationErrors

\* C20 (amended): missing configuration raises a configuration error exactly
\* once, before any query and before any other effect of main; with the
\* configuration in place no configuration error is raised, and an exception
\* of the initialisation, the test embedding, the dataset loading or the
\* insertion aborts the run as well: it is logged and raised again, and no
\* test query is issued.  Only the exceptions of the test queries are
\* contained.
C20_ConfigurationErrorFirstOfSeveralAborts ==
    /\ ConfigurationErrorFirst
    /\ ~ConfigurationMissing =>
          \A k \in DOMAIN hf.raised : hf.raised[k] \notin ConfigurationErrors
    /\ Len(hf.raised) <= 1
    /\ pc = "hf_raised" =>
          /\ Len(hf.raised) = 1
          /\ hf.propagated = hf.raised[1]
          /\ hf.attempted = <<>>
          /\ hf.logged_errors # <<>>
          /\ hf.logged_errors[Len(hf.logged_errors)] = "An error occurred"
    /\ pc = "hf_returned" => hf.raised = <<>>
    /\ hf.failed_queries # {} => hf.raised = <<>>

C20_Witness ==
    /\ pc = "hf_raised"
    /\ hf.cloudflare_api_key = "set"
    /\ hf.account_id = AccountPlaceholder
    /\ hf.working_dir_files = files_to_delete
    /\ hf.raised = <<"ValueError: Please set CLOUDFLARE_ACCOUNT_ID environment variable">>
    /\ hf.propagated = hf.raised[1]
    /\ NoEffectOfTheRun

\* ------------------------------------------- claims on equal response times

\* All recorded times are one and the same L > 0.
AllTimesEqual ==
    LET rt == demonstrator.response_times
    IN  /\ rt # <<>>
        /\ rt[1] > 0
        /\ \A k \in DOMAIN rt : rt[k] = rt[1]

\* With all times equal to L > 0 the analysis selects L as minimum,
\* maximum, median, p95 and p99, and in exact arithmetic the variance is 0
\* and the consistency score 1.
EqualLatenciesSelected ==
    (AnalysisCalled /\ AllTimesEqual) =>
        LET L == Frac(demonstrator.response_times[1], 1)
            v == analysis.value
        IN  /\ v.min_latency = L /\ v.max_latency = L
            /\ v.median_latency = L
            /\ v.p95_latency = L /\ v.p99_latency = L
            /\ v.std_deviation.sqrt_of.num = 0
            /\ v.consistency_score.num = v.consistency_score.den

\* C16 (as claimed): when all n >= 1 items succeed with the same latency
\* L > 0, the standard deviation that line 340 computes is 0 (the mean of
\* the n equal times being L).
C16_EqualLatenciesZeroDeviation ==
    pc = "fp_done" =>
        /\ std_calc.mean = std_calc.x
        /\ std_calc.std_deviation = "0.0"

\* --------------------------------------------------- claims on two runs

\* The second run has returned.
SecondReturned == runs # <<>> /\ Returned

\* C21: the object's results, response times and tallies accumulate over
\* calls.  After a first run of n1 prompts and a second run of n2 prompts on
\* the same demonstrator, results holds n1 + n2 entries (the first run's,
\* then the second's), each tally is the first run's plus what the second
\* run alone adds, the summary covers the n1 + n2 items, and the second
\* run's ordinals start again at 1, in results and in the returned list.
C21_StateAccumulatesAcrossRuns ==
    SecondReturned =>
        LET first == runs[1].after
            n1    == Len(runs[1].questions)
            n2    == NumQuestions
            outs2 == SubSeq(outcomes, n1 + 1, n1 + n2)
            tms2  == SubSeq(demonstrator.response_times, n1 + 1, n1 + n2)
            alone == UnchunkedRun(BeforeRun, questions, outs2, tms2, n2)
        IN  /\ Len(first.results) = n1
            /\ Len(demonstrator.results) = n1 + n2
            /\ Len(demonstrator.response_times) = n1 + n2
            /\ demonstrator.results = first.results \o alone.d.results
            /\ SubSeq(demonstrator.response_times, 1, n1) = first.response_times
            /\ demonstrator.successful_queries
                  = first.successful_queries + alone.d.successful_queries
            /\ demonstrator.connectivity_issues
                  = first.connectivity_issues + alone.d.connectivity_issues
            /\ demonstrator.total_tokens_estimated
                  = first.total_tokens_estimated + alone.d.total_tokens_estimated
            /\ formatted_results = alone.formatted
            /\ \A k \in 1..n2 :
                  /\ demonstrator.results[n1 + k].question_number = k
                  /\ formatted_results[k].question_number = k
            /\ (pc = "completed" /\ n1 + n2 > 0) =>
                  /\ Reported
                  /\ summary.total_questions = n1 + n2
                  /\ summary.successful_queries = demonstrator.successful_queries
                  /\ summary.connectivity_issues = demonstrator.connectivity_issues
                  /\ summary.avg_answer_length
                        = Frac(SumSeq(AnswerLengths(first))
                                  + SumSeq(AnswerLengths(alone.d)), n1 + n2)

C21_Witness ==
    /\ pc = "completed"
    /\ runs # <<>>
    /\ Len(runs[1].questions) = MaxRun
    /\ NumQuestions = MaxRun
    /\ Len(demonstrator.results) = 2 * MaxRun
    /\ demonstrator.results[MaxRun + 1].question_number = 1
    /\ demonstrator.successful_queries = 2 * MaxRun
    /\ summary.total_questions = 2 * MaxRun

\* ------------------------------------------- claims on DatasetMCPTester

LastEntry == tester.test_results[Len(tester.test_results)]

\* The named test method has just returned to its caller.
JustReturned(test) ==
    /\ tester.pc = "idle"
    /\ tester.test_results # <<>>
    /\ LastEntry.test = test

AllCompleted(tasks) == \A k \in DOMAIN tasks : tasks[k] = "completed"

\* The progress file holds the final progress of five completed tasks.
FinalFileWritten ==
    /\ DOMAIN tester.task_file =
          {"tasks", "completed_count", "in_progress_count", "pending_count",
           "success_rate", "timestamp"}
    /\ tester.task_file.tasks = tester.tasks
    /\ tester.task_file.completed_count = 5
    /\ tester.task_file.completed_count = Len(tester.tasks)
    /\ tester.task_file.in_progress_count = 0
    /\ tester.task_file.pending_count = 0
    /\ tester.task_file.success_rate = "100%"

\* C22 as stated: whenever task_management_test has returned, the five tasks
\* are completed, the progress file holds the final progress and the entry
\* recorded is a passed one.
C22_TaskManagementEndsCompleted ==
    JustReturned("task_management_test") =>
        /\ Len(tester.tasks) = 5
        /\ AllCompleted(tester.tasks)
        /\ FinalFileWritten
        /\ LastEntry.status = "passed"

\* C22, amended: task_management_test ends with the five tasks completed,
\* the final progress (5 completed, 0 in progress, 0 pending, "100%") in the
\* file and a passed entry whenever its file operations succeed; the checks
\* on the file read back never fail, so the only other ending is a failed
\* entry for a file operation that raised, with the task list and the file
\* as they were at that point.
C22_TaskManagementEndsCompletedUnlessFileError ==
    JustReturned("task_management_test") =>
        /\ Len(tester.tasks) = 5
        /\ LastEntry.status = "passed" =>
              /\ Len(tester.written) = 7
              /\ AllCompleted(tester.tasks)
              /\ FinalFileWritten
        /\ LastEntry.status # "passed" =>
              /\ LastEntry.status = "failed"
              /\ LastEntry.details = OSError
              /\ tester.returns[Len(tester.returns)] = FALSE
        /\ Len(tester.written) = 7 =>
              /\ AllCompleted(tester.tasks)
              /\ FinalFileWritten

C22_Witness ==
    /\ JustReturned("task_management_test")
    /\ LastEntry.status = "passed"
    /\ AllCompleted(tester.tasks)
    /\ FinalFileWritten

\* A progress record written before the final one.
BeforeFinal == {k \in 1..Len(tester.written) :
                   "success_rate" \notin DOMAIN tester.written[k]}

\* Exactly one task is in progress, those before it are completed and those
\* after it are pending.
OneInProgressAfterCompleted(tasks) ==
    /\ Len(tasks) = 5
    /\ Count(tasks, "in_progress") = 1
    /\ \E j \in DOMAIN tasks :
          /\ tasks[j] = "in_progress"
          /\ \A m \in DOMAIN tasks : m < j => tasks[m] = "completed"
          /\ \A m \in DOMAIN tasks : m > j => tasks[m] = "pending"

HasCounts(data) ==
    {"completed_count", "in_progress_count", "pending_count"}
        \subseteq DOMAIN data

CountsAddUp(data) ==
    /\ HasCounts(data)
    /\ data.completed_count = Count(data.tasks, "completed")
    /\ data.in_progress_count = Count(data.tasks, "in_progress")
    /\ data.pending_count = Count(data.tasks, "pending")
    /\ data.completed_count + data.in_progress_count + data.pending_count = 5

Rank(status) ==
    CASE status = "pending"     -> 0
      [] status = "in_progress" -> 1
      [] status = "completed"   -> 2

\* From one written record to the next no status goes back.
NeverBackwards ==
    \A k \in 1..(Len(tester.written) - 1) :
        \A j \in 1..5 :
            Rank(tester.written[k].tasks[j])
                <= Rank(tester.written[k + 1].tasks[j])

C24_GatherKeepsIndexOrder ==
    /\ \A a, b \in AsyncIndices : a # b => Filename(a) # Filename(b)
    /\ tester.pc = "async_check" =>
          /\ tester.results = <<Filename(0), Filename(1), Filename(2)>>
          /\ Len(tester.finished) = 3
          /\ \A k \in 1..3 : tester.results[k] \in tester.files
    /\ (JustReturned("async_dataset_processing_test")
           /\ LastEntry.status = "failed") => LastEntry.details = OSError

C24_Witness ==
    /\ tester.pc = "async_check"
    /\ tester.finished = <<2, 0, 1>>
    /\ tester.results[1] = Filename(0)
    /\ tester.results[3] = Filename(2)

\* C25: every call of a test method adds exactly one entry to test_results,
\* at its return, and returns True exactly when that entry is "passed";
\* every call returns (none raises); so a summary taken after c calls has
\* passed + failed = total_tests = c, and with no call made its
\* success_rate is the literal "0%", no quotient being formed.
C25_OneEntryPerCallSummaryAddsUp ==
    /\ Len(tester.returns) = Len(tester.test_results)
    /\ Len(tester.test_results)
          = (IF tester.pc = "idle" THEN tester.calls ELSE tester.calls - 1)
    /\ \A k \in 1..Len(tester.test_results) :
          /\ tester.test_results[k].status \in {"passed", "failed"}
          /\ tester.returns[k] = (tester.test_results[k].status = "passed")
    /\ tester.summarized >= 0 =>
          /\ tester.summary.total_tests = tester.summarized
          /\ tester.summary.passed + tester.summary.failed
                = tester.summary.total_tests
          /\ tester.summary.passed
                = Cardinality({k \in 1..tester.summarized :
                                  tester.returns[k]})
          /\ tester.summary.results
                = SubSeq(tester.test_results, 1, tester.summarized)
          /\ tester.summary.success_rate
                = (IF tester.summarized = 0
                   THEN [format |-> "0%", tenths |-> 0]
                   ELSE OneDecimalPercent(tester.summary.passed,
                                          tester.summarized))

C25_Witness ==
    /\ tester.pc = "idle"
    /\ tester.calls = MaxTestCalls
    /\ tester.summarized = MaxTestCalls
    /\ tester.summary.passed = 1
    /\ tester.summary.failed = MaxTestCalls - 1
    /\ tester.returns[1] = FALSE

C25_WitnessNoTestRun ==
    /\ tester.summarized = 0
    /\ tester.summary.success_rate = [format |-> "0%", tenths |-> 0]

\* --------------------------------------------- claims on CloudflareWorker

\* The exchange gave no usable answer: a transport error, a body that is
\* not JSON, or a JSON value without a "data" or "response" member.
RequestFailed(exchange) ==
    \/ exchange.transport # "ok"
    \/ exchange.body # "object"
    \/ exchange.result.type # "object"
    \/ (~exchange.result.has_data /\ ~exchange.result.has_response)

\* C26: _send_request never raises to its caller; a transport error,
\* malformed JSON or a response without "data" and without "response"
\* makes it return None after logging the error; a result holding both keys
\* is answered with the array of "data"; query and embedding_chunk hand the
\* same value on, so they end by returning, with None for every failure.
C26_SendRequestReturnsNoneOnFailure ==
    /\ request.pc \in {"none", "called", "parsed", "except", "returned", "done"}
    /\ request.pc \in {"returned", "done"} =>
          LET exchange == request.exchange
          IN  /\ RequestFailed(exchange) =>
                    /\ request.value = None
                    /\ request.logged = <<"Cloudflare API error">>
              /\ ~RequestFailed(exchange) =>
                    /\ request.logged = <<>>
                    /\ request.value =
                          IF exchange.result.has_data
                          THEN Array(exchange.result.data)
                          ELSE Response(exchange.result.response)
    /\ request.pc = "done" => request.caller = request.value

C26_Witness ==
    /\ request.pc = "done"
    /\ request.exchange.transport = "ok"
    /\ request.exchange.result.type = "null"
    /\ request.raised = "TypeError"
    /\ request.caller = None

\* ------------------------------------------ claims on the dataset demo

\* main of the dataset demo has ended, by return or by an exception.
HfEnded == pc \in {"hf_returned", "hf_raised"}

\* C27: once rag is bound, finalize_storages is called exactly once, at the
\* exit, on every path out of main: the normal end, the early return for no
\* text, an exception of the embedding test, the loading or the insertion;
\* a run that stops before initialize_rag returned never calls it.
C27_FinalizeExactlyOnceIfInitialised ==
    /\ hf.finalize_calls \in {0, 1}
    /\ hf.finalize_calls = 1 => (HfEnded /\ hf.rag = "bound")
    /\ HfEnded => hf.finalize_calls = (IF hf.rag = "bound" THEN 1 ELSE 0)
    /\ (HfEnded /\ hf.rag # "bound") =>
          /\ pc = "hf_raised"
          /\ hf.embedding = "not requested"
          /\ hf.dataset = "not loaded"

C27_Witness ==
    /\ pc = "hf_returned"
    /\ hf.rag = "bound"
    /\ hf.dataset = "loaded"
    /\ hf.texts_to_insert = 0
    /\ ~hf.inserted
    /\ hf.finalize_calls = 1

C27_WitnessNotInitialised ==
    /\ pc = "hf_raised"
    /\ hf.raised = <<"error in initialize_rag">>
    /\ hf.finalize_calls = 0

\* The "Error during query" lines of the log.
QueryErrorsLogged ==
    Cardinality({k \in 1..Len(hf.logged_errors) :
                    hf.logged_errors[k] = "Error during query"})

\* C29: once the insertion has succeeded, the three test queries are
\* attempted in order whatever fails among them: a query that raises is
\* logged and the next is issued, no exception leaves the loop, and main
\* ends by returning with exactly the attempts 1, 2, 3.
C29_QueryFailuresContained ==
    /\ hf.attempted = [k \in 1..Len(hf.attempted) |-> k]
    /\ Len(hf.attempted) <= Len(test_queries)
    /\ hf.failed_queries \subseteq 1..Len(hf.attempted)
    /\ QueryErrorsLogged = Cardinality(hf.failed_queries)
    /\ hf.attempted # <<>> => hf.inserted
    /\ hf.inserted =>
          /\ pc \in {"hf_query", "hf_finally", "hf_returned"}
          /\ hf.raised = <<>>
          /\ pc \in {"hf_finally", "hf_returned"} =>
                hf.attempted = <<1, 2, 3>>

C29_Witness ==
    /\ pc = "hf_returned"
    /\ hf.inserted
    /\ hf.attempted = <<1, 2, 3>>
    /\ hf.failed_queries = {1, 2}
    /\ hf.propagated = "nothing"

\* -------------------------------------- claims on process_dataset_entries

\* The field the claim names for a row: 'text', else 'content', else the
\* formatted lines.
NamedField(entry) ==
    IF HasKey(entry, "text") THEN entry.text
    ELSE IF HasKey(entry, "content") THEN entry.content
    ELSE StrValue(JoinLines(entry, RowKeys))

\* Processing the row raises: the value taken is not a string.
EntryRaises(entry) == NamedField(entry).type # "str"

Blank(s) == \A k \in 1..Len(s) : s[k] \in Whitespace

\* C28: process_dataset_entries returns, in the order of the rows, at most
\* one text per row and no empty or whitespace-only text; the text of a row
\* is its 'text' field, else its 'content' field, else its formatted
\* key/value lines; a row whose processing raises is skipped with a warning
\* and every row after it is still processed.
C28_TextsInOrderNoneBlank ==
    processing.pc = "returned" =>
        LET rows  == processing.expected
            texts == processing.returned
            from  == processing.from
        IN  /\ processing.i = Len(rows)
            /\ Len(texts) = Len(from)
            /\ Len(texts) <= Len(rows)
            /\ \A k \in 1..Len(from) :
                  /\ from[k] \in 0..(Len(rows) - 1)
                  /\ k > 1 => from[k - 1] < from[k]
                  /\ texts[k] = NamedField(rows[from[k] + 1]).s
                  /\ ~Blank(texts[k])
            /\ \A j \in 0..(Len(rows) - 1) :
                  LET entry == rows[j + 1]
                      kept  == \E k \in 1..Len(from) : from[k] = j
                  IN  /\ kept = (~EntryRaises(entry)
                                    /\ ~Blank(NamedField(entry).s))
                      /\ (\E k \in 1..Len(processing.warnings) :
                             processing.warnings[k] = j) = EntryRaises(entry)

C28_Witness ==
    /\ processing.pc = "returned"
    /\ Len(processing.expected) = MaxEntries
    /\ processing.expected[1].text = NullValue
    /\ processing.warnings = <<0>>
    /\ processing.from = <<1>>
    /\ processing.returned = <<<<"title", ": ", "c", "\n", "label", ": ", "1">>>>
    /\ processing.dataset[1].name = "test"

\* ------------------------------------------- claims on the index bounds

\* C30: with n >= 1 latencies above zero, whatever n is, the three indices
\* len // 2, int(len * 0.95) and int(len * 0.99) are in 0..n-1, so the
\* selections of median, p95 and p99 in the sorted list are within it and
\* the analysis returns them.
C30_IndicesWithinSortedList ==
    LET n == Cardinality(TimesAboveZero)
    IN  n >= 1 =>
            /\ MedianIndex(n) \in 0..(n - 1)
            /\ P95Index(n) \in 0..(n - 1)
            /\ P99Index(n) \in 0..(n - 1)
            /\ MedianIndex(n) <= P95Index(n)
            /\ P95Index(n) <= P99Index(n)
            /\ AnalysisCalled =>
                  {"median_latency", "p95_latency", "p99_latency"}
                      \subseteq DOMAIN analysis.value

C30_Witness ==
    /\ AnalysisCalled
    /\ Cardinality(TimesAboveZero) >= 21
    /\ P99Index(Cardinality(TimesAboveZero)) = Cardinality(TimesAboveZero) - 1
    /\ "p99_latency" \in DOMAIN analysis.value

C30_WitnessOne ==
    /\ AnalysisCalled
    /\ Cardinality(TimesAboveZero) = 1
    /\ analysis.value.p99_latency = analysis.value.min_latency

====
